---- MODULE Spec2Model ----
(***************************************************************************)
(* Model of the diversity-and-inclusion evaluator (src/v6.py).             *)
(*                                                                         *)
(* Numbers.  Indicator values and thresholds are percentages with at most  *)
(* two decimals; they are held as integers counting hundredths of a        *)
(* percent (40 % is 4000, 2.5 % is 250, 33.33 % is 3333).  A score, the    *)
(* quotient of an integer sum by an integer count, is held as the exact    *)
(* fraction [num, den].  The age balance and the check of the sum of the   *)
(* age brackets are computed in floats, as the code computes them;         *)
(* indicateurs holds the age balance rounded down to a whole hundredth,    *)
(* which keeps every comparison against a threshold of whole hundredths.   *)
(* An empty cell of an uploaded table is the float NaN: among the          *)
(* hundredths it is the number nan, which no input reaches otherwise, and   *)
(* every comparison with it is false, as in Python.                        *)
(***************************************************************************)
EXTENDS Integers, Sequences, FiniteSets, TLC

VARIABLES
    pc,            \* position of the script run
    methode,       \* st.radio choice of the data entry method
    fichier,       \* the uploaded file (st.file_uploader)
    indicateurs,   \* dict key -> value filled by the data entry block
    messages,      \* what the run has shown (st.warning/st.error/st.success, exception)
    evaluation,    \* locals of the "Evaluer" block
    rapport,       \* locals of the report generation block
    appel,         \* a direct call of one of the scoring functions
    retour         \* the value that call returned

vars == <<pc, methode, fichier, indicateurs, messages, evaluation, rapport, appel, retour>>

----------------------------------------------------------------------------
(* Bounds of the checked input grids.                                      *)

\* thresholds of the generic grid range over 0..MaxSeuil, values one beyond
MaxSeuil == 4
\* a score of the generic grid is num/den with den in 1..MaxDen
MaxDen == 6
\* age brackets of the grid are the multiples of 10 % up to MaxTranche * 10 %
MaxTranche == 10
\* the workforce of the workbooks handed to convert_data
MaxEffectif == 10

----------------------------------------------------------------------------
(* The scoring functions.                                                  *)

Notes == {"A", "B", "C", "D", "E"}

\* float('nan') among the values counted in hundredths
nan == 0 - 999999999

\* x >= y and x <= y of Python, false when x is NaN
PlusGrandOuEgal(x, y) == x # nan /\ x >= y
PlusPetitOuEgal(x, y) == x # nan /\ x <= y

\* mutant: the comparisons are strict
attribuer_note_strict(valeur, s, ordre_croissant) ==
    IF ordre_croissant
    THEN IF (valeur # nan /\ valeur > s[1]) THEN "A"
         ELSE IF (valeur # nan /\ valeur > s[2]) THEN "B"
         ELSE IF (valeur # nan /\ valeur > s[3]) THEN "C"
         ELSE IF (valeur # nan /\ valeur > s[4]) THEN "D"
         ELSE "E"
    ELSE IF (valeur # nan /\ valeur < s[1]) THEN "A"
         ELSE IF (valeur # nan /\ valeur < s[2]) THEN "B"
         ELSE IF (valeur # nan /\ valeur < s[3]) THEN "C"
         ELSE IF (valeur # nan /\ valeur < s[4]) THEN "D"
         ELSE "E"

\* mutant: the comparison chain runs from the D boundary upwards
attribuer_note_inverse(valeur, s, ordre_croissant) ==
    IF ordre_croissant
    THEN IF PlusGrandOuEgal(valeur, s[4]) THEN "D"
         ELSE IF PlusGrandOuEgal(valeur, s[3]) THEN "C"
         ELSE IF PlusGrandOuEgal(valeur, s[2]) THEN "B"
         ELSE IF PlusGrandOuEgal(valeur, s[1]) THEN "A"
         ELSE "E"
    ELSE IF PlusPetitOuEgal(valeur, s[4]) THEN "D"
         ELSE IF PlusPetitOuEgal(valeur, s[3]) THEN "C"
         ELSE IF PlusPetitOuEgal(valeur, s[2]) THEN "B"
         ELSE IF PlusPetitOuEgal(valeur, s[1]) THEN "A"
         ELSE "E"

\* mutant: the direction flag is ignored in the second branch
attribuer_note_sens(valeur, s, ordre_croissant) ==
    IF PlusGrandOuEgal(valeur, s[1]) THEN "A"
    ELSE IF PlusGrandOuEgal(valeur, s[2]) THEN "B"
    ELSE IF PlusGrandOuEgal(valeur, s[3]) THEN "C"
    ELSE IF PlusGrandOuEgal(valeur, s[4]) THEN "D"
    ELSE "E"

\* mutant: the B and C returns are exchanged
attribuer_note_echange(valeur, s, ordre_croissant) ==
    IF ordre_croissant
    THEN IF PlusGrandOuEgal(valeur, s[1]) THEN "A"
         ELSE IF PlusGrandOuEgal(valeur, s[2]) THEN "C"
         ELSE IF PlusGrandOuEgal(valeur, s[3]) THEN "B"
         ELSE IF PlusGrandOuEgal(valeur, s[4]) THEN "D"
         ELSE "E"
    ELSE IF PlusPetitOuEgal(valeur, s[1]) THEN "A"
         ELSE IF PlusPetitOuEgal(valeur, s[2]) THEN "C"
         ELSE IF PlusPetitOuEgal(valeur, s[3]) THEN "B"
         ELSE IF PlusPetitOuEgal(valeur, s[4]) THEN "D"
         ELSE "E"

\* mutant: the final else falls through without a grade
attribuer_note_sans_E(valeur, s, ordre_croissant) ==
    IF ordre_croissant
    THEN IF PlusGrandOuEgal(valeur, s[1]) THEN "A"
         ELSE IF PlusGrandOuEgal(valeur, s[2]) THEN "B"
         ELSE IF PlusGrandOuEgal(valeur, s[3]) THEN "C"
         ELSE IF PlusGrandOuEgal(valeur, s[4]) THEN "D"
         ELSE "None"
    ELSE IF PlusPetitOuEgal(valeur, s[1]) THEN "A"
         ELSE IF PlusPetitOuEgal(valeur, s[2]) THEN "B"
         ELSE IF PlusPetitOuEgal(valeur, s[3]) THEN "C"
         ELSE IF PlusPetitOuEgal(valeur, s[4]) THEN "D"
         ELSE "None"

\* seuils is the list [seuil_A, seuil_B, seuil_C, seuil_D], here s[1]..s[4]
attribuer_note(valeur, s, ordre_croissant) ==
    IF ordre_croissant
    THEN IF PlusGrandOuEgal(valeur, s[1]) THEN "A"
         ELSE IF PlusGrandOuEgal(valeur, s[2]) THEN "B"
         ELSE IF PlusGrandOuEgal(valeur, s[3]) THEN "C"
         ELSE IF PlusGrandOuEgal(valeur, s[4]) THEN "D"
         ELSE "E"
    ELSE IF PlusPetitOuEgal(valeur, s[1]) THEN "A"
         ELSE IF PlusPetitOuEgal(valeur, s[2]) THEN "B"
         ELSE IF PlusPetitOuEgal(valeur, s[3]) THEN "C"
         ELSE IF PlusPetitOuEgal(valeur, s[4]) THEN "D"
         ELSE "E"

conversion == [A |-> 5, B |-> 4, C |-> 3, D |-> 2, E |-> 1]

\* mutant: the table counts from 0
note_vers_chiffre_zero(note) ==
    IF note \in DOMAIN conversion THEN conversion[note] - 1 ELSE 0

\* conversion.get(note, 0)
note_vers_chiffre(note) ==
    IF note \in DOMAIN conversion THEN conversion[note] ELSE 0

\* mutant: the ladder is cut at the whole numbers
chiffre_vers_note_entier(score) ==
    IF score.num >= 5 * score.den THEN "A"
    ELSE IF score.num >= 4 * score.den THEN "B"
    ELSE IF score.num >= 3 * score.den THEN "C"
    ELSE IF score.num >= 2 * score.den THEN "D"
    ELSE "E"

\* score >= 4.5 is 2 * num >= 9 * den for the fraction num/den, den > 0
chiffre_vers_note(score) ==
    IF 2 * score.num >= 9 * score.den THEN "A"
    ELSE IF 2 * score.num >= 7 * score.den THEN "B"
    ELSE IF 2 * score.num >= 5 * score.den THEN "C"
    ELSE IF 2 * score.num >= 3 * score.den THEN "D"
    ELSE "E"

Abs(x) == IF x < 0 THEN 0 - x ELSE x

----------------------------------------------------------------------------
(* Python floats.  A float is IEEE 754 binary64: [s, m, e] stands for     *)
(* s * m * 2^e with s = 1 or -1 and m a natural number of exactly 53 bits, *)
(* or m = 0 for zero; s = 0 stands for NaN, which every operation hands   *)
(* on.  Every operation gives the exact result rounded to                  *)
(* the nearest float, ties to the even mantissa.  A natural number is the  *)
(* sequence of its digits in base 2^15, lowest first, without leading      *)
(* zeros, so that no intermediate value leaves the 32-bit integers.        *)

Deux(n) == <<1, 2, 4, 8, 16, 32, 64, 128, 256, 512, 1024, 2048, 4096, 8192,
             16384, 32768>>[n + 1]

Plus_grand(S) == CHOOSE x \in S : \A y \in S : y <= x

Rogner(a) ==
    LET non_nuls == {i \in 1..Len(a) : a[i] # 0}
    IN  IF non_nuls = {} THEN <<>> ELSE SubSeq(a, 1, Plus_grand(non_nuls))

Chiffre(a, i) == IF i \in 1..Len(a) THEN a[i] ELSE 0

\* the digits of the number whose digit i is c[i] + the carry of digit i - 1
Propager(c, i, retenue) ==
    LET suite[p \in [i : Nat, retenue : Int]] ==
            IF p.i > Len(c) THEN (IF p.retenue = 0 THEN <<>> ELSE <<p.retenue>>)
            ELSE <<(c[p.i] + p.retenue) % 32768>>
                 \o suite[[i |-> p.i + 1, retenue |-> (c[p.i] + p.retenue) \div 32768]]
    IN  suite[[i |-> i, retenue |-> retenue]]

Ajouter(a, b) ==
    Propager([i \in 1..Plus_grand({Len(a), Len(b)}) |-> Chiffre(a, i) + Chiffre(b, i)],
             1, 0)

\* a - b for a >= b
Retrancher(a, b) ==
    Rogner(Propager([i \in 1..Len(a) |-> a[i] - Chiffre(b, i)], 1, 0))

\* a * k for 0 <= k <= 2^15
Fois(a, k) == Rogner(Propager([i \in 1..Len(a) |-> a[i] * k], 1, 0))

\* the sign of a - b
Comparer(a, b) ==
    IF Len(a) # Len(b) THEN (IF Len(a) > Len(b) THEN 1 ELSE 0 - 1)
    ELSE LET differents == {i \in 1..Len(a) : a[i] # b[i]}
         IN  IF differents = {} THEN 0
             ELSE LET i == Plus_grand(differents)
                  IN  IF a[i] > b[i] THEN 1 ELSE 0 - 1

\* the number of binary digits of a
NbBits(a) ==
    IF a = <<>> THEN 0
    ELSE 15 * (Len(a) - 1)
         + (CHOOSE n \in 1..15 : Deux(n - 1) <= a[Len(a)] /\ a[Len(a)] < Deux(n))

\* a * 2^n
Gauche(a, n) ==
    IF a = <<>> THEN <<>>
    ELSE [i \in 1..(n \div 15) |-> 0] \o Fois(a, Deux(n % 15))

\* a \div 2^n
Droite(a, n) ==
    LET b == IF n \div 15 >= Len(a) THEN <<>> ELSE SubSeq(a, n \div 15 + 1, Len(a))
        r == n % 15
    IN  Rogner([i \in 1..Len(b) |->
                  (b[i] \div Deux(r)) + (Chiffre(b, i + 1) % Deux(r)) * Deux(15 - r)])

\* a \div k and a % k for 0 < k <= 2^15, from digit i down
DiviserPar(a, k, i, reste) ==
    LET division[p \in [i : Nat, reste : Nat]] ==
            IF p.i = 0 THEN [q |-> <<>>, r |-> p.reste]
            ELSE LET t == p.reste * 32768 + a[p.i]
                     suite == division[[i |-> p.i - 1, reste |-> t % k]]
                 IN  [q |-> Append(suite.q, t \div k), r |-> suite.r]
    IN  division[[i |-> i, reste |-> reste]]

\* the digits of the natural number k < 2^31
Naturel(k) == Rogner(<<k % 32768, (k \div 32768) % 32768, k \div (32768 * 32768)>>)

\* the natural number of the digits a, for a < 2^31
Valeur(a) == Chiffre(a, 1) + 32768 * Chiffre(a, 2) + 32768 * 32768 * Chiffre(a, 3)

Zero == [s |-> 1, m |-> <<>>, e |-> 0]

\* float('nan')
FNaN == [s |-> 0, m |-> <<>>, e |-> 0]

\* the float s * m * 2^e for a mantissa m of 53 or 54 bits, the last one 0
Ajuster(s, m, e) ==
    IF NbBits(m) = 54 THEN [s |-> s, m |-> Droite(m, 1), e |-> e + 1]
    ELSE [s |-> s, m |-> m, e |-> e]

\* q or q + 1, whichever is nearer: c is the sign of (what was cut off) - 1/2
\* and a tie goes to the even mantissa
Choisir(s, q, e, c, reste) ==
    Ajuster(s, IF c > 0 \/ (c = 0 /\ (reste \/ q[1] % 2 = 1)) THEN Ajouter(q, <<1>>) ELSE q, e)

\* n, of more than 53 bits, cut to its 53 leading bits q, and the d bits cut
\* off compared with a half
Couper(s, n, e, reste, d, q) ==
    Choisir(s, q, e + d, Comparer(Retrancher(n, Gauche(q, d)), Gauche(<<1>>, d - 1)), reste)

Normaliser(s, n, e, reste, bits) ==
    IF bits <= 53
    THEN [s |-> s, m |-> Gauche(n, 53 - bits), e |-> e - (53 - bits)]
    ELSE Couper(s, n, e, reste, bits - 53, Droite(n, bits - 53))

\* The float nearest to s * x * 2^e, where n is the integer part of x and
\* reste tells that x is not an integer; n has 55 bits or more when reste.
Arrondir(s, n, e, reste) ==
    IF n = <<>> THEN Zero ELSE Normaliser(s, n, e, reste, NbBits(n))

\* float(k) for an integer k
DeEntier(k) == Arrondir(IF k < 0 THEN 0 - 1 ELSE 1, Naturel(IF k < 0 THEN 0 - k ELSE k),
                        0, FALSE)

\* sx * nx * 2^e + sy * ny * 2^e for opposite signs, c the sign of nx - ny
Soustraire(sx, nx, sy, ny, e, c) ==
    IF c = 0 THEN Zero
    ELSE Arrondir(IF c > 0 THEN sx ELSE sy,
                  IF c > 0 THEN Retrancher(nx, ny) ELSE Retrancher(ny, nx), e, FALSE)

\* sx * nx * 2^e + sy * ny * 2^e
Additionner(sx, nx, sy, ny, e) ==
    IF sx = sy THEN Arrondir(sx, Ajouter(nx, ny), e, FALSE)
    ELSE Soustraire(sx, nx, sy, ny, e, Comparer(nx, ny))

\* x + y in the common exponent e, the smaller of the two
Aligner(x, y, e) == Additionner(x.s, Gauche(x.m, x.e - e), y.s, Gauche(y.m, y.e - e), e)

\* x + y
FPlus(x, y) ==
    IF x.s = 0 \/ y.s = 0 THEN FNaN
    ELSE IF x.m = <<>> THEN y
    ELSE IF y.m = <<>> THEN x
    ELSE Aligner(x, y, IF x.e < y.e THEN x.e ELSE y.e)

\* x - y
FMoins(x, y) == FPlus(x, [y EXCEPT !.s = 0 - y.s])

\* abs(x)
FAbs(x) == IF x.s = 0 THEN FNaN ELSE [x EXCEPT !.s = 1]

\* x > y
FSup(x, y) == LET d == FMoins(x, y) IN d.m # <<>> /\ d.s = 1

\* x < 0
FNegatif(x) == x.m # <<>> /\ x.s = 0 - 1

\* x * k for an integer 0 < k <= 2^15
FFoisEntier(x, k) == IF x.s = 0 THEN FNaN ELSE Arrondir(x.s, Fois(x.m, k), x.e, FALSE)

\* the float nearest to s * (d.q + what d.r tells is left) * 2^e
ArrondirQuotient(s, d, e) == Arrondir(s, Rogner(d.q), e, d.r # 0)

\* n \div k and n % k
DivisionEntiere(n, k) == DiviserPar(n, k, Len(n), 0)

\* x / k for an integer 0 < k <= 2^15
FDivEntier(x, k) ==
    IF x.s = 0 THEN FNaN
    ELSE IF x.m = <<>> THEN Zero
    ELSE ArrondirQuotient(x.s, DivisionEntiere(Gauche(x.m, 18), k), x.e - 18)

\* the long division of r by d, binary digit by binary digit: q is the
\* quotient so far and i the number of digits still to compute; the
\* remainder is given as r = 0 or 1, 1 when something is left
Quotient(r, d, q, i) ==
    LET division[p \in [r : Seq(Nat), q : Seq(Nat), i : Nat]] ==
            IF p.i = 0 THEN [q |-> p.q, r |-> IF p.r = <<>> THEN 0 ELSE 1]
            ELSE IF Comparer(p.r, d) >= 0
            THEN division[[r |-> Fois(Retrancher(p.r, d), 2),
                           q |-> Ajouter(Fois(p.q, 2), <<1>>), i |-> p.i - 1]]
            ELSE division[[r |-> Fois(p.r, 2), q |-> Fois(p.q, 2), i |-> p.i - 1]]
    IN  division[[r |-> r, q |-> q, i |-> i]]

\* x / y for y # 0
FDiv(x, y) ==
    IF x.s = 0 \/ y.s = 0 THEN FNaN
    ELSE IF x.m = <<>> THEN Zero
    ELSE ArrondirQuotient(x.s * y.s, Quotient(x.m, y.m, <<>>, 57), x.e - y.e - 56)

\* the largest integer at most s * n * 2^e
Plancher(s, n, e) ==
    IF e >= 0 THEN s * Valeur(Gauche(n, e))
    ELSE LET q == Droite(n, 0 - e)
         IN  IF s = 1 THEN Valeur(q)
             ELSE IF Gauche(q, 0 - e) = n THEN 0 - Valeur(q)
             ELSE 0 - Valeur(q) - 1

\* the float written with two decimals, given in hundredths: 3333 is 33.33
Flottant(centiemes) ==
    IF centiemes = nan THEN FNaN ELSE FDivEntier(DeEntier(centiemes), 100)

\* the largest number of hundredths at most x; NaN stays NaN
Centiemes(x) == IF x.s = 0 THEN nan ELSE Plancher(x.s, Fois(x.m, 100), x.e)

\* the largest number of millionths at most x; NaN stays NaN
Millioniemes(x) ==
    IF x.s = 0 THEN nan ELSE Plancher(x.s, Fois(Fois(x.m, 1000), 1000), x.e)

----------------------------------------------------------------------------
(* The age balance.  The brackets are given in hundredths of a percent;    *)
(* the value returned is the float the code computes.                      *)

distribution_ideale == Flottant(3333)

\* 66.67, the divisor of the mean deviation
ecart_max == Flottant(6667)

\* mutant: the score is clamped at 0
calculer_equilibre_age_borne(moins_30, entre_30_50, plus_50) ==
    LET ecart_moins_30 == FAbs(FMoins(Flottant(moins_30), distribution_ideale))
        ecart_entre_30_50 == FAbs(FMoins(Flottant(entre_30_50), distribution_ideale))
        ecart_plus_50 == FAbs(FMoins(Flottant(plus_50), distribution_ideale))
        ecart_moyen == FDivEntier(FPlus(FPlus(ecart_moins_30, ecart_entre_30_50),
                                        ecart_plus_50), 3)
        score == FMoins(DeEntier(1), FDiv(ecart_moyen, ecart_max))
    IN  IF FNegatif(score) THEN Zero ELSE FFoisEntier(score, 100)

\* mutant: the ideal share is 33.34
calculer_equilibre_age_ideal(moins_30, entre_30_50, plus_50) ==
    LET ecart_moins_30 == FAbs(FMoins(Flottant(moins_30), Flottant(3334)))
        ecart_entre_30_50 == FAbs(FMoins(Flottant(entre_30_50), Flottant(3334)))
        ecart_plus_50 == FAbs(FMoins(Flottant(plus_50), Flottant(3334)))
        ecart_moyen == FDivEntier(FPlus(FPlus(ecart_moins_30, ecart_entre_30_50),
                                        ecart_plus_50), 3)
        score == FMoins(DeEntier(1), FDiv(ecart_moyen, ecart_max))
    IN  FFoisEntier(score, 100)

\* mutant: the score is returned between 0 and 1, not as a percentage
calculer_equilibre_age_unite(moins_30, entre_30_50, plus_50) ==
    LET ecart_moins_30 == FAbs(FMoins(Flottant(moins_30), distribution_ideale))
        ecart_entre_30_50 == FAbs(FMoins(Flottant(entre_30_50), distribution_ideale))
        ecart_plus_50 == FAbs(FMoins(Flottant(plus_50), distribution_ideale))
        ecart_moyen == FDivEntier(FPlus(FPlus(ecart_moins_30, ecart_entre_30_50),
                                        ecart_plus_50), 3)
        score == FMoins(DeEntier(1), FDiv(ecart_moyen, ecart_max))
    IN  score

\* mutant: the mean deviation is divided by 100 instead of 66.67
calculer_equilibre_age_cent(moins_30, entre_30_50, plus_50) ==
    LET ecart_moins_30 == FAbs(FMoins(Flottant(moins_30), distribution_ideale))
        ecart_entre_30_50 == FAbs(FMoins(Flottant(entre_30_50), distribution_ideale))
        ecart_plus_50 == FAbs(FMoins(Flottant(plus_50), distribution_ideale))
        ecart_moyen == FDivEntier(FPlus(FPlus(ecart_moins_30, ecart_entre_30_50),
                                        ecart_plus_50), 3)
        score == FMoins(DeEntier(1), FDiv(ecart_moyen, DeEntier(100)))
    IN  FFoisEntier(score, 100)

\* score * 100 with score = 1 - (ecart_moyen / 66.67), every operation a
\* float operation, in the order the code makes them
calculer_equilibre_age(moins_30, entre_30_50, plus_50) ==
    LET ecart_moins_30 == FAbs(FMoins(Flottant(moins_30), distribution_ideale))
        ecart_entre_30_50 == FAbs(FMoins(Flottant(entre_30_50), distribution_ideale))
        ecart_plus_50 == FAbs(FMoins(Flottant(plus_50), distribution_ideale))
        ecart_moyen == FDivEntier(FPlus(FPlus(ecart_moins_30, ecart_entre_30_50),
                                        ecart_plus_50), 3)
        score == FMoins(DeEntier(1), FDiv(ecart_moyen, ecart_max))
    IN  FFoisEntier(score, 100)

----------------------------------------------------------------------------
(* The grading scales.                                                     *)

\* mutant: two boundaries of the absenteeism ladder are exchanged
seuils_echanges ==
    [taux_feminisation  |-> <<4000, 3500, 3000, 2500>>,
     taux_femmes_cadres |-> <<3500, 3000, 2500, 2000>>,
     taux_handicap      |-> <<600, 500, 400, 300>>,
     ecart_salaire      |-> <<200, 400, 800, 1200>>,
     equilibre_age      |-> <<8500, 7500, 6500, 5500>>,
     taux_absenteisme   |-> <<250, 450, 350, 550>>]

seuils ==
    [taux_feminisation  |-> <<4000, 3500, 3000, 2500>>,
     taux_femmes_cadres |-> <<3500, 3000, 2500, 2000>>,
     taux_handicap      |-> <<600, 500, 400, 300>>,
     ecart_salaire      |-> <<200, 400, 800, 1200>>,
     equilibre_age      |-> <<8500, 7500, 6500, 5500>>,
     taux_absenteisme   |-> <<250, 350, 450, 550>>]

Cles == DOMAIN seuils

----------------------------------------------------------------------------
(* The data entry block.                                                   *)

\* the value float(data_dict.get(cle, 0)) when the cell converts: NaN for
\* an empty cell
Lu(data_dict, cle) ==
    IF cle \notin DOMAIN data_dict THEN 0
    ELSE IF data_dict[cle].nan THEN nan
    ELSE data_dict[cle].v

\* int(cellule) for 'annee' and float(cellule) for the other keys raises:
\* the cell is not a number, or it is empty and int(nan) raises ValueError
Ne_convertit_pas(cle, cellule) == ~cellule.num \/ (cle = "annee" /\ cellule.nan)

\* mutant: the cell is read as data_dict[cle], which raises when the key is absent
Illisible_absent(data_dict, cle) ==
    cle \notin DOMAIN data_dict \/ Ne_convertit_pas(cle, data_dict[cle])

\* int(...) or float(...) of the cell raises: the cell is present and does
\* not convert
Illisible(data_dict, cle) ==
    cle \in DOMAIN data_dict /\ Ne_convertit_pas(cle, data_dict[cle])

\* the conversions of the upload block, in the order the code makes them
OrdreLecture ==
    <<"annee", "taux_feminisation", "taux_femmes_cadres", "ecart_salaire",
      "taux_handicap", "moins_30_ans", "entre_30_50_ans", "plus_50_ans",
      "taux_absenteisme">>

\* mutant: a key outside the ones looked up raises before any conversion
NbLus_rejet(data_dict) ==
    LET mauvais == {i \in 1..Len(OrdreLecture) : Illisible(data_dict, OrdreLecture[i])}
        connues == {OrdreLecture[i] : i \in 1..Len(OrdreLecture)} \cup {"nom_entreprise"}
    IN  IF ~(DOMAIN data_dict \subseteq connues) THEN 0
        ELSE IF mauvais = {} THEN Len(OrdreLecture)
        ELSE (CHOOSE i \in mauvais : \A j \in mauvais : i <= j) - 1

\* how many conversions succeed before one raises (all of them when none does)
NbLus(data_dict) ==
    LET mauvais == {i \in 1..Len(OrdreLecture) : Illisible(data_dict, OrdreLecture[i])}
    IN  IF mauvais = {} THEN Len(OrdreLecture)
        ELSE (CHOOSE i \in mauvais : \A j \in mauvais : i <= j) - 1

Si(c, cle, v) == IF c THEN cle :> v ELSE <<>>

\* abs(sum_age - 100) > 0.01 with sum_age = moins_30 + entre_30_50 + plus_50,
\* in floats: at a distance of 0.01 the outcome depends on how the two
\* additions round
SommeAgeFausse(moins_30, entre_30_50, plus_50) ==
    LET sum_age == FPlus(FPlus(Flottant(moins_30), Flottant(entre_30_50)),
                         Flottant(plus_50))
    IN  FSup(FAbs(FMoins(sum_age, DeEntier(100))), Flottant(1))

\* indicateurs as the upload block leaves it: the assignments made before
\* the first conversion that raises
indicateurs_importes(data_dict) ==
    LET n == NbLus(data_dict)
    IN  Si(n >= 2, "taux_feminisation", Lu(data_dict, "taux_feminisation"))
     @@ Si(n >= 3, "taux_femmes_cadres", Lu(data_dict, "taux_femmes_cadres"))
     @@ Si(n >= 4, "ecart_salaire", Lu(data_dict, "ecart_salaire"))
     @@ Si(n >= 5, "taux_handicap", Lu(data_dict, "taux_handicap"))
     @@ Si(n >= 8, "equilibre_age",
           Centiemes(calculer_equilibre_age(Lu(data_dict, "moins_30_ans"),
                                            Lu(data_dict, "entre_30_50_ans"),
                                            Lu(data_dict, "plus_50_ans"))))
     @@ Si(n >= 9, "taux_absenteisme", Lu(data_dict, "taux_absenteisme"))

messages_import(data_dict) ==
    LET n == NbLus(data_dict)
    IN  (IF n >= 8 /\ SommeAgeFausse(Lu(data_dict, "moins_30_ans"),
                                     Lu(data_dict, "entre_30_50_ans"),
                                     Lu(data_dict, "plus_50_ans"))
         THEN {"warning somme des ages"} ELSE {})
        \cup (IF n = Len(OrdreLecture)
              THEN {"success import"} ELSE {"error lecture du fichier"})

----------------------------------------------------------------------------
(* The grading of the six indicators and the aggregate.                    *)

\* mutant: the absenteeism rate is graded like the rates where more is better
calculer_resultats_sens(ind) ==
       "Taux de feminisation global" :>
            attribuer_note(ind["taux_feminisation"], seuils["taux_feminisation"], TRUE)
    @@ "Taux de femmes cadres" :>
            attribuer_note(ind["taux_femmes_cadres"], seuils["taux_femmes_cadres"], TRUE)
    @@ "Taux d'emploi handicap" :>
            attribuer_note(ind["taux_handicap"], seuils["taux_handicap"], TRUE)
    @@ "Ecart de salaire H/F" :>
            attribuer_note(ind["ecart_salaire"], seuils["ecart_salaire"], FALSE)
    @@ "Equilibre des ages" :>
            attribuer_note(ind["equilibre_age"], seuils["equilibre_age"], TRUE)
    @@ "Taux d'absenteisme" :>
            attribuer_note(ind["taux_absenteisme"], seuils["taux_absenteisme"], TRUE)

\* mutant: the pay gap is graded with the default direction
ordre_croissant_site_defaut ==
    [taux_feminisation  |-> TRUE,
     taux_femmes_cadres |-> TRUE,
     taux_handicap      |-> TRUE,
     ecart_salaire      |-> TRUE,
     equilibre_age      |-> TRUE,
     taux_absenteisme   |-> FALSE]

\* the argument ordre_croissant at the call site of each indicator in the
\* "Evaluer" block: the default True, or False
ordre_croissant_site ==
    [taux_feminisation  |-> TRUE,
     taux_femmes_cadres |-> TRUE,
     taux_handicap      |-> TRUE,
     ecart_salaire      |-> FALSE,
     equilibre_age      |-> TRUE,
     taux_absenteisme   |-> FALSE]

NoteDe(ind, cle) == attribuer_note(ind[cle], seuils[cle], ordre_croissant_site[cle])

\* the dict resultats: label -> grade
calculer_resultats(ind) ==
       "Taux de feminisation global" :> NoteDe(ind, "taux_feminisation")
    @@ "Taux de femmes cadres" :> NoteDe(ind, "taux_femmes_cadres")
    @@ "Taux d'emploi handicap" :> NoteDe(ind, "taux_handicap")
    @@ "Ecart de salaire H/F" :> NoteDe(ind, "ecart_salaire")
    @@ "Equilibre des ages" :> NoteDe(ind, "equilibre_age")
    @@ "Taux d'absenteisme" :> NoteDe(ind, "taux_absenteisme")

\* {cle: note_vers_chiffre(note) for cle, note in resultats.items()}
calculer_notes_numeriques(resultats) ==
    [cle \in DOMAIN resultats |-> note_vers_chiffre(resultats[cle])]

RECURSIVE SommeSur(_, _)
SommeSur(f, D) ==
    IF D = {} THEN 0
    ELSE LET x == CHOOSE y \in D : TRUE IN f[x] + SommeSur(f, D \ {x})

\* sum(d.values())
sum_values(d) == SommeSur(d, DOMAIN d)

\* mutant: the sum runs over the distinct values, sum(set(d.values()))
calculer_score_global_distinct(notes_numeriques) ==
    LET valeurs == {notes_numeriques[c] : c \in DOMAIN notes_numeriques}
    IN  [num |-> SommeSur([v \in valeurs |-> v], valeurs),
         den |-> Cardinality(DOMAIN notes_numeriques)]

\* sum(notes_numeriques.values()) / len(notes_numeriques)
calculer_score_global(notes_numeriques) ==
    [num |-> sum_values(notes_numeriques),
     den |-> Cardinality(DOMAIN notes_numeriques)]

\* the locals the "Evaluer" block leaves behind
locals_evaluation(ind) ==
    LET resultats == calculer_resultats(ind)
        notes_numeriques == calculer_notes_numeriques(resultats)
        score_global == calculer_score_global(notes_numeriques)
    IN  [fait |-> TRUE,
         resultats |-> resultats,
         notes_numeriques |-> notes_numeriques,
         score_global |-> score_global,
         note_globale |-> chiffre_vers_note(score_global)]

\* the argument ordre_croissant at each call site of the report block
ordre_croissant_rapport ==
    [taux_feminisation  |-> TRUE,
     taux_femmes_cadres |-> TRUE,
     taux_handicap      |-> TRUE,
     ecart_salaire      |-> FALSE,
     equilibre_age      |-> TRUE,
     taux_absenteisme   |-> FALSE]

NoteDeRapport(ind, cle) ==
    attribuer_note(ind[cle], seuils[cle], ordre_croissant_rapport[cle])

\* the dict resultats of the report block
calculer_resultats_rapport(ind) ==
       "Taux de feminisation global" :> NoteDeRapport(ind, "taux_feminisation")
    @@ "Taux de femmes cadres" :> NoteDeRapport(ind, "taux_femmes_cadres")
    @@ "Taux d'emploi handicap" :> NoteDeRapport(ind, "taux_handicap")
    @@ "Ecart de salaire H/F" :> NoteDeRapport(ind, "ecart_salaire")
    @@ "Equilibre des ages" :> NoteDeRapport(ind, "equilibre_age")
    @@ "Taux d'absenteisme" :> NoteDeRapport(ind, "taux_absenteisme")

\* the key of indicateurs behind each label of resultats
mapping_indicateurs ==
       "Taux de feminisation global" :> "taux_feminisation"
    @@ "Taux de femmes cadres" :> "taux_femmes_cadres"
    @@ "Taux d'emploi handicap" :> "taux_handicap"
    @@ "Ecart de salaire H/F" :> "ecart_salaire"
    @@ "Equilibre des ages" :> "equilibre_age"
    @@ "Taux d'absenteisme" :> "taux_absenteisme"

\* the dict handed to generate_pdf; the two lists are held as the sets of
\* the labels they mention
prepare_data_for_pdf(resultats, points_forts, axes_amelioration, note_globale, score_global, ind) ==
    [resultats |->
        [k \in DOMAIN resultats |->
            [note |-> resultats[k],
             valeur |-> IF mapping_indicateurs[k] \in DOMAIN ind
                        THEN ind[mapping_indicateurs[k]] ELSE 0,
             seuils |-> IF mapping_indicateurs[k] \in DOMAIN seuils
                        THEN seuils[mapping_indicateurs[k]] ELSE <<0, 0, 0, 0>>]],
     points_forts |-> points_forts,
     axes_amelioration |-> axes_amelioration,
     note_globale |-> note_globale,
     score_global |-> score_global]

\* the locals the report block computes before its button
locals_rapport(ind) ==
    LET resultats == calculer_resultats_rapport(ind)
        points_forts == {k \in DOMAIN resultats : resultats[k] \in {"A", "B"}}
        axes_amelioration == {k \in DOMAIN resultats : resultats[k] \in {"D", "E"}}
        notes_numeriques == calculer_notes_numeriques(resultats)
        score_global == calculer_score_global(notes_numeriques)
        note_globale == chiffre_vers_note(score_global)
    IN  [fait |-> TRUE,
         resultats |-> resultats,
         notes_numeriques |-> notes_numeriques,
         score_global |-> score_global,
         note_globale |-> note_globale,
         data |-> prepare_data_for_pdf(resultats, points_forts, axes_amelioration,
                                       note_globale, score_global, ind)]

\* Python's None
None == [type |-> "NoneType"]

\* what generate_pdf finds on the machine: no wkhtmltopdf at any of the four
\* paths, a wkhtmltopdf that pdfkit fails to run, or one that writes the PDF
Environnements == {"absent", "echec", "pdf"}

\* the keys generate_pdf reads in data and in each entry of data['resultats']
cles_data == {"score_global", "note_globale", "resultats", "points_forts", "axes_amelioration"}

DataLisible(data) ==
    /\ cles_data \subseteq DOMAIN data
    /\ \A k \in DOMAIN data.resultats : {"valeur", "note"} \subseteq DOMAIN data.resultats[k]

\* generate_pdf(data, company_name, year) on a machine in the state
\* wkhtmltopdf: the value returned and the st.error shown.  A key missing
\* from data raises KeyError while template_data is built, before the search
\* for wkhtmltopdf; every exception is caught by the function.  Of the PDF
\* only the name and the year on it are kept.
generate_pdf(data, company_name, year, wkhtmltopdf) ==
    IF ~DataLisible(data)
    THEN [pdf_data |-> None, messages |-> {"error generation du PDF"}]
    ELSE IF wkhtmltopdf = "absent"
    THEN [pdf_data |-> None, messages |-> {"error wkhtmltopdf"}]
    ELSE IF wkhtmltopdf = "echec"
    THEN [pdf_data |-> None, messages |-> {"error generation du PDF"}]
    ELSE [pdf_data |-> [type |-> "bytes", company_name |-> company_name, year |-> year],
          messages |-> {}]

NonFait == [fait |-> FALSE]

indicateurs_requis ==
    {"taux_feminisation", "taux_femmes_cadres", "taux_handicap",
     "ecart_salaire", "equilibre_age", "taux_absenteisme"}

----------------------------------------------------------------------------
(* Inputs of a script run.                                                 *)

\* values typed for an indicator: its four boundaries, a tenth of a percent
\* on either side of the D boundary, and 0 (all within the
\* min_value..max_value of the st.number_input)
ValeursSaisie(cle) ==
    {0} \cup {seuils[cle][i] : i \in 1..4}
        \cup {seuils[cle][4] - 10, seuils[cle][4] + 10}

\* age brackets typed or uploaded: (moins_30, entre_30_50, plus_50)
\* among them two with the sum 99.99, of which the code warns about the first only
TranchesAge ==
    {<<3333, 3333, 3334>>, <<1500, 4500, 4000>>, <<500, 5500, 4000>>,
     <<0, 7000, 3000>>, <<10000, 0, 0>>, <<0, 0, 0>>,
     <<3333, 3333, 3333>>, <<1500, 4500, 3999>>}

\* a cell of the column 'Valeur': a number, or text that does not convert
\* (float() and int() raise ValueError)
Nombre(v) == [num |-> TRUE, nan |-> FALSE, v |-> v, erreur |-> "aucune"]
Texte == [num |-> FALSE, nan |-> FALSE, v |-> 0, erreur |-> "ValueError"]

\* a cell holding a date: float() and int() raise TypeError
Date == [num |-> FALSE, nan |-> FALSE, v |-> 0, erreur |-> "TypeError"]

\* an empty cell, read as NaN: float() returns NaN and int() raises ValueError
Vide == [num |-> TRUE, nan |-> TRUE, v |-> 0, erreur |-> "aucune"]

\* the cell of the row 'nom_entreprise', which no conversion reads: a name,
\* or the empty cell, a NaN that the report shows as 'nan'
Nom(texte) == [num |-> FALSE, nan |-> FALSE, v |-> texte, erreur |-> "ValueError"]
NomVide == [num |-> TRUE, nan |-> TRUE, v |-> "nan", erreur |-> "aucune"]

\* the rows of the template file (src/v6.py:291-298)
modele ==
    [nom_entreprise |-> "EDF SA",
     annee |-> 2022, taux_feminisation |-> 3000, taux_femmes_cadres |-> 2800,
     ecart_salaire |-> 500, taux_handicap |-> 550, moins_30_ans |-> 1500,
     entre_30_50_ans |-> 4500, plus_50_ans |-> 4000, taux_absenteisme |-> 420]

\* the keys the upload block converts to numbers
cles_converties == DOMAIN modele \ {"nom_entreprise"}

\* the cells an uploaded table may hold for a key it converts: that of the
\* template (TRUE) or text (FALSE)
Tables ==
    UNION {[D -> {TRUE, FALSE}] : D \in SUBSET cles_converties}

\* a row of an uploaded table whose key the script never looks up
cle_inconnue == "taux_turnover"

\* the table t, with that row added when enPlus and the row 'nom_entreprise'
\* of the template when avecNom
AvecLigneEnPlus(t, enPlus, avecNom) ==
    [cle \in DOMAIN t \cup (IF enPlus THEN {cle_inconnue} ELSE {})
                      \cup (IF avecNom THEN {"nom_entreprise"} ELSE {}) |->
        IF cle = cle_inconnue THEN Nombre(1000)
        ELSE IF cle = "nom_entreprise" THEN Nom(modele[cle])
        ELSE IF t[cle] THEN Nombre(modele[cle]) ELSE Texte]

\* the template with the cells of the rows of vides left empty
AvecCellulesVides(vides) ==
    [cle \in DOMAIN modele |->
        IF cle = "nom_entreprise" THEN (IF cle \in vides THEN NomVide ELSE Nom(modele[cle]))
        ELSE IF cle \in vides THEN Vide ELSE Nombre(modele[cle])]

PasDeFichier == [type |-> "aucun", data_dict |-> <<>>]

Fichiers ==
    {PasDeFichier,
     [type |-> "illisible", data_dict |-> <<>>],
     [type |-> "colonnes manquantes", data_dict |-> <<>>]}
    \cup {[type |-> "table", data_dict |-> AvecLigneEnPlus(t, enPlus, avecNom)] :
                t \in Tables, enPlus \in BOOLEAN, avecNom \in BOOLEAN}
    \cup {[type |-> "table", data_dict |-> AvecCellulesVides(vides)] :
                vides \in SUBSET DOMAIN modele}

----------------------------------------------------------------------------
(* A run of the script.                                                    *)

PasDAppel == [fn |-> "aucun"]

Init ==
    /\ pc = "entree"
    /\ methode = "Saisie manuelle"
    /\ fichier = PasDeFichier
    /\ indicateurs = <<>>
    /\ messages = {}
    /\ evaluation = NonFait
    /\ rapport = NonFait
    /\ appel = PasDAppel
    /\ retour = <<>>

\* methode == "Saisie manuelle": the six st.number_input fields
SaisieManuelle ==
    /\ pc = "entree"
    /\ \E ages \in TranchesAge :
       \E equilibre_age \in {calculer_equilibre_age(ages[1], ages[2], ages[3])},
          avertir \in {SommeAgeFausse(ages[1], ages[2], ages[3])},
          tf \in ValeursSaisie("taux_feminisation"),
          tc \in ValeursSaisie("taux_femmes_cadres"),
          es \in ValeursSaisie("ecart_salaire"),
          th \in ValeursSaisie("taux_handicap"),
          ta \in ValeursSaisie("taux_absenteisme") :
            /\ indicateurs' =
                 [taux_feminisation |-> tf, taux_femmes_cadres |-> tc,
                  ecart_salaire |-> es, taux_handicap |-> th,
                  equilibre_age |-> Centiemes(equilibre_age),
                  taux_absenteisme |-> ta]
            /\ messages' = IF avertir THEN {"warning somme des ages"} ELSE {}
    /\ methode' = "Saisie manuelle"
    /\ pc' = "bouton"
    /\ UNCHANGED <<fichier, evaluation, rapport, appel, retour>>

\* methode == "Telechargement de fichier CSV/Excel"
Televersement ==
    /\ pc = "entree"
    /\ \E f \in Fichiers :
        /\ fichier' = f
        /\ IF f.type = "aucun"
           THEN indicateurs' = <<>> /\ messages' = {}
           ELSE IF f.type = "illisible"
           THEN indicateurs' = <<>> /\ messages' = {"error lecture du fichier"}
           ELSE IF f.type = "colonnes manquantes"
           THEN indicateurs' = <<>> /\ messages' = {"error colonnes"}
           ELSE /\ indicateurs' = indicateurs_importes(f.data_dict)
                /\ messages' = messages_import(f.data_dict)
    /\ methode' = "Telechargement de fichier CSV/Excel"
    /\ pc' = "bouton"
    /\ UNCHANGED <<evaluation, rapport, appel, retour>>

\* mutant: a missing indicator is read as indicateurs.get(cle, 0)
Evaluer_par_defaut ==
    /\ pc = "bouton"
    /\ DOMAIN indicateurs # {}
    /\ evaluation' = locals_evaluation(
            [cle \in Cles |-> IF cle \in DOMAIN indicateurs THEN indicateurs[cle] ELSE 0])
    /\ pc' = "rapport"
    /\ UNCHANGED <<methode, fichier, indicateurs, messages, rapport, appel, retour>>

\* st.button("Evaluer") pressed and indicateurs not empty
Evaluer ==
    /\ pc = "bouton"
    /\ DOMAIN indicateurs # {}
    /\ IF Cles \subseteq DOMAIN indicateurs
       THEN /\ evaluation' = locals_evaluation(indicateurs)
            /\ pc' = "rapport"
            /\ UNCHANGED messages
       ELSE \* indicateurs[...] raises KeyError, which nothing catches
            /\ messages' = messages \cup {"exception KeyError"}
            /\ pc' = "arret"
            /\ UNCHANGED evaluation
    /\ UNCHANGED <<methode, fichier, indicateurs, rapport, appel, retour>>

\* the button is not pressed, or indicateurs is empty
PasEvaluer ==
    /\ pc = "bouton"
    /\ pc' = "rapport"
    /\ UNCHANGED <<methode, fichier, indicateurs, messages, evaluation, rapport,
                   appel, retour>>

\* nom_entreprise and annee of the run: the defaults of the two fields of the
\* manual entry, or what the upload block read
nom_entreprise_saisi ==
    IF methode = "Saisie manuelle" THEN "EDF SA"
    ELSE IF "nom_entreprise" \in DOMAIN fichier.data_dict
    THEN fichier.data_dict["nom_entreprise"].v
    ELSE "Entreprise inconnue"

annee_saisie ==
    IF methode = "Saisie manuelle" \/ "annee" \notin DOMAIN fichier.data_dict THEN 2022
    ELSE fichier.data_dict["annee"].v

\* The report generation block.  With the six indicators present the block
\* grades them, prepares the data and shows st.button("Generer le rapport
\* PDF"); when the button is pressed it calls generate_pdf and shows the
\* success or the failure.  The except around that call (src/v6.py:1320) is
\* not taken: generate_pdf catches its own exceptions.
GenererRapport ==
    /\ pc = "rapport"
    /\ IF DOMAIN indicateurs = {}
       THEN /\ messages' = messages \cup {"warning saisir les donnees"}
            /\ UNCHANGED rapport
       ELSE IF ~(indicateurs_requis \subseteq DOMAIN indicateurs)
       THEN \* raise ValueError, caught at src/v6.py:1323: two st.error
            /\ messages' = messages \cup {"error validation des donnees",
                                          "error verifier que les donnees sont saisies"}
            /\ UNCHANGED rapport
       ELSE \E locaux \in {locals_rapport(indicateurs)} :
            \E bouton \in BOOLEAN, wkhtmltopdf \in Environnements :
               IF ~bouton
               THEN /\ rapport' = locaux
                    /\ UNCHANGED messages
               ELSE LET pdf == generate_pdf(locaux.data, nom_entreprise_saisi,
                                           annee_saisie, wkhtmltopdf)
                    IN  /\ rapport' = locaux @@ [pdf_data |-> pdf.pdf_data]
                        /\ messages' =
                              messages \cup pdf.messages
                                \cup (IF pdf.pdf_data # None
                                      THEN {"success rapport PDF"}
                                      ELSE {"error generation du PDF a echoue"})
    /\ pc' = "fin"
    /\ UNCHANGED <<methode, fichier, indicateurs, evaluation, appel, retour>>

\* the next interaction reruns the script from the top
Relancer ==
    /\ pc \in {"fin", "arret"}
    /\ pc' = "entree"
    /\ methode' = "Saisie manuelle"
    /\ fichier' = PasDeFichier
    /\ indicateurs' = <<>>
    /\ messages' = {}
    /\ evaluation' = NonFait
    /\ rapport' = NonFait
    /\ UNCHANGED <<appel, retour>>

Next ==
    \/ SaisieManuelle
    \/ Televersement
    \/ Evaluer
    \/ PasEvaluer
    \/ GenererRapport
    \/ Relancer

Spec == Init /\ [][Next]_vars

----------------------------------------------------------------------------
(* Direct calls of the scoring functions, over grids of arguments.         *)

Echelles == [1..4 -> 0..MaxSeuil]

\* the calls with the six ladders of the table: each boundary and a tenth of
\* a percent on either side of it, and values far beyond both ends
ValeursAutour(s) ==
    {s[i] + d : i \in 1..4, d \in {0 - 10, 0, 10}} \cup {0 - 5000, 0, 20000}

AppelsAttribuerNote ==
    {[fn |-> "attribuer_note", valeur |-> v, seuils |-> s, ordre_croissant |-> o] :
        v \in (0 - 1)..(MaxSeuil + 1), s \in Echelles, o \in BOOLEAN}
    \cup UNION {{[fn |-> "attribuer_note", valeur |-> v, seuils |-> seuils[cle],
                  ordre_croissant |-> o] :
                    v \in ValeursAutour(seuils[cle]) \cup {nan}, o \in BOOLEAN} :
                        cle \in Cles}

AppelsNoteVersChiffre ==
    {[fn |-> "note_vers_chiffre", note |-> n] : n \in Notes \cup {"F"}}

Scores ==
    UNION {{[num |-> n, den |-> d] : n \in 0..(6 * d)} : d \in 1..MaxDen}

AppelsChiffreVersNote ==
    {[fn |-> "chiffre_vers_note", score |-> s] : s \in Scores}

\* age brackets: multiples of 10 %, 33.33, 33.34, and values outside 0..100
PartsAge ==
    {1000 * k : k \in 0..MaxTranche} \cup {3333, 3334, 0 - 1000, 20000}

AppelsCalculerEquilibreAge ==
    {[fn |-> "calculer_equilibre_age", moins_30 |-> a, entre_30_50 |-> b, plus_50 |-> c] :
        a \in PartsAge, b \in PartsAge, c \in PartsAge}
    \cup {[fn |-> "calculer_equilibre_age", moins_30 |-> a, entre_30_50 |-> b,
           plus_50 |-> c] : a \in {1500, nan}, b \in {4500, nan}, c \in {4000, nan}}

----------------------------------------------------------------------------
(* The converter: convert_data of src/converter.py.  A workbook df is a    *)
(* record: its columns, its number of rows, the name of the company and    *)
(* the thirteen cells read with int() or float(), in row order.  A float   *)
(* computed from the cells is [nan, v], nan telling that it is NaN; a      *)
(* percentage is the binary64 float the two roundings of (n / d) * 100     *)
(* give.                                                                   *)


\* x < y, x > y and x <= y on floats: False as soon as one of them is NaN
Inferieur(x, y) == ~x.nan /\ ~y.nan /\ x.v < y.v
Superieur(x, y) == ~x.nan /\ ~y.nan /\ x.v > y.v
InferieurOuEgal(x, y) == ~x.nan /\ ~y.nan /\ x.v <= y.v

\* x + y and x - y
Somme(x, y) == [nan |-> x.nan \/ y.nan, v |-> x.v + y.v]
Difference(x, y) == [nan |-> x.nan \/ y.nan, v |-> x.v - y.v]

\* abs(x)
ValeurAbsolue(x) == [nan |-> x.nan, v |-> Abs(x.v)]

required_fields == {"Information", "Valeur"}

\* the outcome of reading row i (from 1) as a number and validating it
Etape(df, i, cellule, invalide) ==
    IF i > df.lignes THEN "IndexError"
    ELSE IF ~cellule.num THEN cellule.erreur
    ELSE IF invalide THEN "ValueError"
    ELSE "aucune"

\* the outcomes of the steps of convert_data, in the order of the code
etapes_convert_data(df, maintenant) ==
    LET effectif_total == df.effectif_total
        total_age == Somme(Somme(df.moins_30, df.entre_30_50), df.plus_50)
        zero == Nombre(0)
    IN  << IF required_fields \subseteq df.colonnes THEN "aucune" ELSE "ValueError",
           IF 1 > df.lignes THEN "IndexError"
           ELSE IF df.nom_entreprise = "" THEN "ValueError" ELSE "aucune",
           Etape(df, 2, df.annee,
                 df.annee.nan \/ df.annee.v < 2000 \/ df.annee.v > maintenant),
           Etape(df, 3, df.effectif_total, InferieurOuEgal(effectif_total, zero)),
           Etape(df, 4, df.nb_femmes,
                 Inferieur(df.nb_femmes, zero) \/ Superieur(df.nb_femmes, effectif_total)),
           Etape(df, 5, df.nb_cadres,
                 Inferieur(df.nb_cadres, zero) \/ Superieur(df.nb_cadres, effectif_total)),
           Etape(df, 6, df.nb_femmes_cadres,
                 Inferieur(df.nb_femmes_cadres, zero)
                    \/ Superieur(df.nb_femmes_cadres, df.nb_cadres)),
           Etape(df, 7, df.nb_handicap,
                 Inferieur(df.nb_handicap, zero)
                    \/ Superieur(df.nb_handicap, effectif_total)),
           Etape(df, 8, df.jours_travailles, InferieurOuEgal(df.jours_travailles, zero)),
           Etape(df, 9, df.jours_absence, Inferieur(df.jours_absence, zero)),
           Etape(df, 10, df.moins_30, FALSE),
           Etape(df, 11, df.entre_30_50, FALSE),
           Etape(df, 12, df.plus_50,
                 Superieur(ValeurAbsolue(Difference(total_age, effectif_total)),
                           Nombre(1))),
           Etape(df, 13, df.salaire_hommes, FALSE),
           Etape(df, 14, df.salaire_femmes,
                 InferieurOuEgal(df.salaire_hommes, zero)
                    \/ InferieurOuEgal(df.salaire_femmes, zero)) >>

\* the exception raised inside the try block, "aucune" when none is
erreur_convert_data(df, maintenant) ==
    LET etapes == etapes_convert_data(df, maintenant)
        echecs == {i \in DOMAIN etapes : etapes[i] # "aucune"}
    IN  IF echecs = {} THEN "aucune"
        ELSE etapes[CHOOSE i \in echecs : \A j \in echecs : i <= j]

\* (n / d) * 100 on floats: the quotient is rounded, then the product.  The
\* validations before it leave no denominator equal to 0.
Pourcentage(n, d) ==
    IF n.nan \/ d.nan THEN FNaN
    ELSE FFoisEntier(FDiv(DeEntier(n.v), DeEntier(d.v)), 100)

\* mutant: the age brackets are written under the keys without the suffix
Indicateur_sortie_age ==
    <<"nom_entreprise", "annee", "taux_feminisation", "taux_femmes_cadres",
      "taux_handicap", "ecart_salaire", "moins_30", "entre_30_50",
      "plus_50", "taux_absenteisme">>

\* output_data['Indicateur']
Indicateur_sortie ==
    <<"nom_entreprise", "annee", "taux_feminisation", "taux_femmes_cadres",
      "taux_handicap", "ecart_salaire", "moins_30_ans", "entre_30_50_ans",
      "plus_50_ans", "taux_absenteisme">>

\* output_data['Valeur']
Valeur_sortie(df) ==
    LET effectif_total == df.effectif_total
    IN  << df.nom_entreprise,
           df.annee.v,
           Pourcentage(df.nb_femmes, effectif_total),
           IF Superieur(df.nb_cadres, Nombre(0))
           THEN Pourcentage(df.nb_femmes_cadres, df.nb_cadres)
           ELSE Zero,
           Pourcentage(df.nb_handicap, effectif_total),
           Pourcentage(Difference(df.salaire_hommes, df.salaire_femmes),
                       df.salaire_hommes),
           Pourcentage(df.moins_30, effectif_total),
           Pourcentage(df.entre_30_50, effectif_total),
           Pourcentage(df.plus_50, effectif_total),
           Pourcentage(df.jours_absence, df.jours_travailles) >>

\* the value convert_data returns: the output table, or None when an
\* exception was raised and caught
convert_data(df, maintenant) ==
    IF erreur_convert_data(df, maintenant) = "aucune"
    THEN [type |-> "DataFrame", Indicateur |-> Indicateur_sortie,
          Valeur |-> Valeur_sortie(df)]
    ELSE None

\* the st.error of the except branch taken
messages_convert_data(df, maintenant) ==
    LET erreur == erreur_convert_data(df, maintenant)
    IN  IF erreur = "aucune" THEN {}
        ELSE IF erreur = "ValueError" THEN {"error validation des donnees du classeur"}
        ELSE {"error conversion des donnees"}

\* dict(zip(data['Indicateur'], data['Valeur'])) of the evaluator
dict_zip(cles, valeurs) ==
    [cle \in {cles[i] : i \in DOMAIN cles} |->
        valeurs[CHOOSE i \in DOMAIN cles :
                    cles[i] = cle /\ \A j \in DOMAIN cles : cles[j] = cle => j <= i]]

\* the columns the upload block of the evaluator requires
expected_columns == {"Indicateur", "Valeur"}

\* the columns of the table convert_data returns
colonnes(table) == DOMAIN table \ {"type"}

\* the keys the upload block of the evaluator looks up
cles_lues == {"nom_entreprise"} \cup {OrdreLecture[i] : i \in DOMAIN OrdreLecture}

\* a workbook with the columns and the fourteen rows of the template
Classeur(nom, annee, effectif, femmes, cadres, femmes_cadres, handicap, travailles, absence, ages, hommes, salaire_f, lignes) ==
    [colonnes |-> {"Information", "Valeur", "Unite"},
     lignes |-> lignes,
     nom_entreprise |-> nom,
     annee |-> annee,
     effectif_total |-> effectif,
     nb_femmes |-> femmes,
     nb_cadres |-> cadres,
     nb_femmes_cadres |-> femmes_cadres,
     nb_handicap |-> handicap,
     jours_travailles |-> travailles,
     jours_absence |-> absence,
     moins_30 |-> ages[1],
     entre_30_50 |-> ages[2],
     plus_50 |-> ages[3],
     salaire_hommes |-> hommes,
     salaire_femmes |-> salaire_f]

\* headcounts by age for a workforce of MaxEffectif, and an empty cell
EffectifsAge ==
    {Nombre(n) : n \in {0 - 1, 0, 4, MaxEffectif - 4, MaxEffectif + 1}} \cup {Vide}

\* workbooks that differ in the headcounts
ClasseursEffectifs ==
    {Classeur("Entreprise", Nombre(2024), effectif, Nombre(femmes), Nombre(cadres),
              Nombre(femmes_cadres), Nombre(handicap), Nombre(200), Nombre(8),
              <<a, b, c>>, Nombre(3000), Nombre(2700), 14) :
        effectif \in {Texte, Date, Vide, Nombre(0), Nombre(MaxEffectif)},
        femmes \in {0 - 1, 4, MaxEffectif + 1},
        cadres \in {0, 5},
        femmes_cadres \in {0, 2, 6},
        handicap \in {0 - 1, 1},
        a \in EffectifsAge, b \in EffectifsAge, c \in EffectifsAge}

\* workbooks that differ in the other rows, and workbooks cut after row 9
ClasseursAutres ==
    {Classeur(nom, annee, Nombre(MaxEffectif), Nombre(4), Nombre(5), Nombre(2),
              Nombre(1), Nombre(travailles), Nombre(absence),
              <<Nombre(4), Nombre(MaxEffectif - 4), Nombre(0)>>,
              Nombre(hommes), Nombre(salaire_f), lignes) :
        nom \in {"", "Entreprise"},
        annee \in {Texte, Date, Vide, Nombre(1999), Nombre(2024)},
        travailles \in {0, 200},
        absence \in {0 - 1, 8},
        hommes \in {0, 3000},
        salaire_f \in {0, 2700, 3300},
        lignes \in {9, 14}}

\* a workbook without the column 'Valeur'
ClasseurSansValeur ==
    [Classeur("Entreprise", Nombre(2024), Nombre(MaxEffectif), Nombre(4), Nombre(5),
              Nombre(2), Nombre(1), Nombre(200), Nombre(8),
              <<Nombre(4), Nombre(MaxEffectif - 4), Nombre(0)>>,
              Nombre(3000), Nombre(2700), 14)
        EXCEPT !.colonnes = {"Information", "Unite"}]

\* workbooks with an empty cell or a date in one of the rows read with float()
ClasseursCellules ==
    {Classeur("Entreprise", Nombre(2024), Nombre(MaxEffectif), femmes, cadres,
              femmes_cadres, Nombre(1), travailles, Nombre(8),
              <<Nombre(4), Nombre(MaxEffectif - 4), Nombre(0)>>,
              hommes, Nombre(2700), 14) :
        femmes \in {Vide, Nombre(4)},
        cadres \in {Vide, Date, Nombre(0), Nombre(5)},
        femmes_cadres \in {Vide, Nombre(2)},
        travailles \in {Vide, Date, Nombre(200)},
        hommes \in {Vide, Nombre(3000)}}

\* the calls of convert_data: a workbook and the current year
AppelsConvertData ==
    {[fn |-> "convert_data", df |-> df, maintenant |-> m] :
        df \in ClasseursEffectifs \cup ClasseursAutres \cup ClasseursCellules
                \cup {ClasseurSansValeur},
        m \in {2023, 2026}}

\* the keys of the dict analyses: the six labels, each with a text for A..E
analyses == [indicateur \in
                {"Taux de feminisation global", "Taux de femmes cadres",
                 "Taux d'emploi handicap", "Ecart de salaire H/F",
                 "Equilibre des ages", "Taux d'absenteisme"} |-> Notes]

NonDisponibles == "Donnees non disponibles pour cet indicateur."

\* mutant: the value 0 is analysed like any other value
get_analyse_indicateur_sans_zero(indicateur, valeur, note) ==
    IF indicateur \in DOMAIN analyses /\ note \in analyses[indicateur]
    THEN [texte |-> "analyse", indicateur |-> indicateur, note |-> note,
          valeur |-> valeur]
    ELSE [texte |-> "Analyse non disponible."]

\* the text returned; an analysis text is told by its indicator, its grade
\* and the value it quotes
get_analyse_indicateur(indicateur, valeur, note) ==
    IF valeur = 0 THEN [texte |-> NonDisponibles]
    ELSE IF indicateur \in DOMAIN analyses /\ note \in analyses[indicateur]
    THEN [texte |-> "analyse", indicateur |-> indicateur, note |-> note,
          valeur |-> valeur]
    ELSE [texte |-> "Analyse non disponible."]

\* values handed to get_analyse_indicateur: 0, a negative pay gap, rates, NaN
ValeursAnalyse == {0, 0 - 150, 1, 250, 3000, 9999, nan}

AppelsGetAnalyseIndicateur ==
    {[fn |-> "get_analyse_indicateur", indicateur |-> i, valeur |-> v, note |-> n] :
        i \in DOMAIN analyses \cup {"Taux de turnover"},
        v \in ValeursAnalyse,
        n \in Notes \cup {"F"}}

\* the dicts handed to generate_pdf: what the report block prepares for
\* three sets of indicators, a dict without 'note_globale' and an empty dict
IndicateursRapport ==
    {[taux_feminisation |-> tf, taux_femmes_cadres |-> 2800, taux_handicap |-> 550,
      ecart_salaire |-> 500, equilibre_age |-> 8166, taux_absenteisme |-> ta] :
        tf \in {0, 3000, 4000}, ta \in {420}}

DataRapport ==
    {locals_rapport(ind).data : ind \in IndicateursRapport}
    \cup {[k \in cles_data \ {"note_globale"} |-> locals_rapport(ind).data[k]] :
            ind \in IndicateursRapport}
    \cup {<<>>}

AppelsGeneratePdf ==
    {[fn |-> "generate_pdf", data |-> d, company_name |-> "EDF SA", year |-> a,
      wkhtmltopdf |-> w] :
        d \in DataRapport, a \in {2022, 2024}, w \in Environnements}

\* The launcher (src/menu_principal.py).  launch_app starts the script of
\* the application named, when its file exists, and returns nothing; it
\* shows an error when the file is missing and two when starting it raises.
scripts == [converter |-> "converter.py", evaluation |-> "v6.py"]

launch_app(app_name, existe, popen) ==
    IF app_name \notin DOMAIN scripts THEN [processus |-> "aucun", messages |-> {}]
    ELSE IF ~existe
    THEN [processus |-> "aucun", messages |-> {"error le fichier n'existe pas"}]
    ELSE IF popen = "exception"
    THEN [processus |-> "aucun",
          messages |-> {"error lancement de l'application",
                        "error verifier les fichiers et les dependances"}]
    ELSE [processus |-> scripts[app_name], messages |-> {}]

\* the two buttons of the menu, and a name launch_app does not know
AppelsLaunchApp ==
    {[fn |-> "launch_app", app_name |-> a, existe |-> e, popen |-> p] :
        a \in {"converter", "evaluation", "autre"}, e \in BOOLEAN,
        p \in {"lance", "exception"}}

InitFonctions ==
    /\ pc = "appel"
    /\ methode = "Saisie manuelle"
    /\ fichier = PasDeFichier
    /\ indicateurs = <<>>
    /\ messages = {}
    /\ evaluation = NonFait
    /\ rapport = NonFait
    /\ \/ appel \in AppelsAttribuerNote
       \/ appel \in AppelsNoteVersChiffre
       \/ appel \in AppelsChiffreVersNote
       \/ appel \in AppelsCalculerEquilibreAge
       \/ appel \in AppelsGetAnalyseIndicateur
       \/ appel \in AppelsConvertData
       \/ appel \in AppelsGeneratePdf
       \/ appel \in AppelsLaunchApp
    /\ retour = <<>>

Retourner(v) ==
    /\ retour' = <<v>>
    /\ pc' = "retour"
    /\ UNCHANGED <<methode, fichier, indicateurs, messages, evaluation, rapport, appel>>

AppelAttribuerNote ==
    /\ pc = "appel"
    /\ appel.fn = "attribuer_note"
    /\ Retourner(attribuer_note(appel.valeur, appel.seuils, appel.ordre_croissant))

AppelNoteVersChiffre ==
    /\ pc = "appel"
    /\ appel.fn = "note_vers_chiffre"
    /\ Retourner(note_vers_chiffre(appel.note))

AppelChiffreVersNote ==
    /\ pc = "appel"
    /\ appel.fn = "chiffre_vers_note"
    /\ Retourner(chiffre_vers_note(appel.score))

\* the call returns the exact value
AppelCalculerEquilibreAge ==
    /\ pc = "appel"
    /\ appel.fn = "calculer_equilibre_age"
    /\ Retourner(calculer_equilibre_age(appel.moins_30, appel.entre_30_50, appel.plus_50))

AppelGetAnalyseIndicateur ==
    /\ pc = "appel"
    /\ appel.fn = "get_analyse_indicateur"
    /\ Retourner(get_analyse_indicateur(appel.indicateur, appel.valeur, appel.note))

\* generate_pdf returns the PDF or None, and shows an error when it returns None
AppelGeneratePdf ==
    /\ pc = "appel"
    /\ appel.fn = "generate_pdf"
    /\ \E pdf \in {generate_pdf(appel.data, appel.company_name, appel.year,
                                 appel.wkhtmltopdf)} :
          /\ retour' = <<pdf.pdf_data>>
          /\ messages' = pdf.messages
    /\ pc' = "retour"
    /\ UNCHANGED <<methode, fichier, indicateurs, evaluation, rapport, appel>>

\* convert_data returns, and shows an error when it returns None
AppelConvertData ==
    /\ pc = "appel"
    /\ appel.fn = "convert_data"
    /\ retour' = <<convert_data(appel.df, appel.maintenant)>>
    /\ messages' = messages_convert_data(appel.df, appel.maintenant)
    /\ pc' = "retour"
    /\ UNCHANGED <<methode, fichier, indicateurs, evaluation, rapport, appel>>

\* launch_app returns None; what it started stays beside the value returned
AppelLaunchApp ==
    /\ pc = "appel"
    /\ appel.fn = "launch_app"
    /\ \E lancement \in {launch_app(appel.app_name, appel.existe, appel.popen)} :
          /\ retour' = <<[valeur |-> None, processus |-> lancement.processus]>>
          /\ messages' = lancement.messages
    /\ pc' = "retour"
    /\ UNCHANGED <<methode, fichier, indicateurs, evaluation, rapport, appel>>

NextFonctions ==
    \/ AppelAttribuerNote
    \/ AppelNoteVersChiffre
    \/ AppelChiffreVersNote
    \/ AppelCalculerEquilibreAge
    \/ AppelGetAnalyseIndicateur
    \/ AppelConvertData
    \/ AppelGeneratePdf
    \/ AppelLaunchApp

SpecFonctions == InitFonctions /\ [][NextFonctions]_vars

\* the call has returned
Retourne(fn) == pc = "retour" /\ appel.fn = fn

----------------------------------------------------------------------------
(* Properties.                                                             *)

\* the grades from worst to best: Rang("E") = 1, Rang("A") = 5
OrdreNotes == <<"E", "D", "C", "B", "A">>
Rang(n) == CHOOSE i \in 1..5 : OrdreNotes[i] = n

\* the values the grids hand to attribuer_note with the ladder s
ValeursGrille(s) == ((0 - 1)..(MaxSeuil + 1)) \cup ValeursAutour(s)

\* C1: graded with higher-is-better, a value v gets A when v >= t[0],
\* otherwise B when v >= t[1], otherwise C when v >= t[2], otherwise D when
\* v >= t[3], otherwise E, for every value and every ladder of four
\* thresholds, monotonic or not.
C1_EchelleCroissante ==
    (Retourne("attribuer_note") /\ appel.ordre_croissant) =>
        LET v == appel.valeur
            t == appel.seuils
            r == retour[1]
            ge(i) == v # nan /\ v >= t[i]
        IN  /\ ge(1) => r = "A"
            /\ (~ge(1) /\ ge(2)) => r = "B"
            /\ (~ge(1) /\ ~ge(2) /\ ge(3)) => r = "C"
            /\ (~ge(1) /\ ~ge(2) /\ ~ge(3) /\ ge(4)) => r = "D"
            /\ (~ge(1) /\ ~ge(2) /\ ~ge(3) /\ ~ge(4)) => r = "E"

\* a ladder that is not monotonic, where the value also reaches the C and D
\* boundaries: the B comparison, the first one satisfied, decides
C1_Temoin ==
    /\ Retourne("attribuer_note")
    /\ appel.ordre_croissant
    /\ appel.valeur < appel.seuils[1]
    /\ appel.valeur >= appel.seuils[2]
    /\ appel.seuils[3] > appel.valeur
    /\ appel.valeur >= appel.seuils[4]
    /\ retour = <<"B">>

\* C2: graded with lower-is-better, a value v gets A when v <= t[0],
\* otherwise B when v <= t[1], otherwise C when v <= t[2], otherwise D when
\* v <= t[3], otherwise E.  A comparison with NaN is not satisfied.
C2_EchelleDecroissante ==
    (Retourne("attribuer_note") /\ ~appel.ordre_croissant) =>
        LET v == appel.valeur
            t == appel.seuils
            r == retour[1]
            le(i) == v # nan /\ v <= t[i]
        IN  /\ le(1) => r = "A"
            /\ (~le(1) /\ le(2)) => r = "B"
            /\ (~le(1) /\ ~le(2) /\ le(3)) => r = "C"
            /\ (~le(1) /\ ~le(2) /\ ~le(3) /\ le(4)) => r = "D"
            /\ (~le(1) /\ ~le(2) /\ ~le(3) /\ ~le(4)) => r = "E"

C2_Temoin ==
    /\ Retourne("attribuer_note")
    /\ ~appel.ordre_croissant
    /\ appel.valeur > appel.seuils[1]
    /\ appel.valeur > appel.seuils[2]
    /\ appel.valeur <= appel.seuils[3]
    /\ appel.valeur < appel.seuils[4]
    /\ retour = <<"C">>

\* C3: with the thresholds [40, 35, 30, 25] and higher-is-better, 40 is
\* graded A, 39.9 B, 25 D and 24.9 E: the boundaries are inclusive.
C3_BornesCroissantes ==
    (/\ Retourne("attribuer_note")
     /\ appel.ordre_croissant
     /\ appel.seuils = <<4000, 3500, 3000, 2500>>) =>
        /\ (appel.valeur = 4000) => retour = <<"A">>
        /\ (appel.valeur = 3990) => retour = <<"B">>
        /\ (appel.valeur = 2500) => retour = <<"D">>
        /\ (appel.valeur = 2490) => retour = <<"E">>

C3_Temoin ==
    /\ Retourne("attribuer_note")
    /\ appel.ordre_croissant
    /\ appel.seuils = seuils["taux_feminisation"]
    /\ appel.valeur = 4000
    /\ retour = <<"A">>

\* C4: with the thresholds [2, 4, 8, 12] and lower-is-better, 2 is graded
\* A, 2.1 B, 12 D and 12.1 E: the boundaries are inclusive.
C4_BornesDecroissantes ==
    (/\ Retourne("attribuer_note")
     /\ ~appel.ordre_croissant
     /\ appel.seuils = <<200, 400, 800, 1200>>) =>
        /\ (appel.valeur = 200) => retour = <<"A">>
        /\ (appel.valeur = 210) => retour = <<"B">>
        /\ (appel.valeur = 1200) => retour = <<"D">>
        /\ (appel.valeur = 1210) => retour = <<"E">>

C4_Temoin ==
    /\ Retourne("attribuer_note")
    /\ ~appel.ordre_croissant
    /\ appel.seuils = seuils["ecart_salaire"]
    /\ appel.valeur = 1200
    /\ retour = <<"D">>

\* C5: with t0 > t1 > t2 > t3 and higher-is-better, a value w >= v is
\* graded at least as well as v.
C5_Monotone ==
    (/\ Retourne("attribuer_note")
     /\ appel.ordre_croissant
     /\ appel.valeur # nan
     /\ \A i \in 1..3 : appel.seuils[i] > appel.seuils[i + 1]) =>
        \A w \in ValeursGrille(appel.seuils) :
            w >= appel.valeur =>
                Rang(attribuer_note(w, appel.seuils, TRUE)) >= Rang(retour[1])

\* a value graded C below values graded better
C5_Temoin ==
    /\ Retourne("attribuer_note")
    /\ appel.ordre_croissant
    /\ \A i \in 1..3 : appel.seuils[i] > appel.seuils[i + 1]
    /\ retour = <<"C">>
    /\ \E w \in ValeursGrille(appel.seuils) :
        w > appel.valeur /\ attribuer_note(w, appel.seuils, TRUE) = "A"

StrictementMonotone(t) ==
    \/ \A i \in 1..3 : t[i] > t[i + 1]
    \/ \A i \in 1..3 : t[i] < t[i + 1]

\* C6: every call returns one of the five grades, for negative values,
\* values above 100 and ladders that are not monotonic; beyond all four
\* thresholds of a monotonic ladder the grade is A on the favourable side
\* and E on the unfavourable side.
C6_ToujoursUneNote ==
    Retourne("attribuer_note") =>
        LET v == appel.valeur
            t == appel.seuils
            r == retour[1]
            auDessus == v # nan /\ \A i \in 1..4 : v > t[i]
            enDessous == v # nan /\ \A i \in 1..4 : v < t[i]
        IN  /\ r \in Notes
            /\ (StrictementMonotone(t) /\ auDessus) =>
                    r = (IF appel.ordre_croissant THEN "A" ELSE "E")
            /\ (StrictementMonotone(t) /\ enDessous) =>
                    r = (IF appel.ordre_croissant THEN "E" ELSE "A")

\* a negative value under every threshold of a ladder of the table
C6_Temoin ==
    /\ Retourne("attribuer_note")
    /\ appel.ordre_croissant
    /\ appel.valeur # nan
    /\ appel.valeur < 0
    /\ appel.seuils = seuils["taux_handicap"]
    /\ retour = <<"E">>

\* the grade of an indicator as the table and its direction give it; NaN
\* meets no threshold
NoteIndicateur(cle) ==
    LET v == indicateurs[cle]
        t == seuils[cle]
    IN  IF v = nan THEN "E"
        ELSE IF cle \in {"ecart_salaire", "taux_absenteisme"}
        THEN (IF v <= t[1] THEN "A" ELSE IF v <= t[2] THEN "B"
              ELSE IF v <= t[3] THEN "C" ELSE IF v <= t[4] THEN "D" ELSE "E")
        ELSE (IF v >= t[1] THEN "A" ELSE IF v >= t[2] THEN "B"
              ELSE IF v >= t[3] THEN "C" ELSE IF v >= t[4] THEN "D" ELSE "E")

Points(n) == Rang(n)

MoyenneDesSix(e) ==
    /\ Cardinality(DOMAIN e.resultats) = 6
    /\ e.score_global.den = 6
    /\ e.score_global.num =
          Points(NoteIndicateur("taux_feminisation"))
        + Points(NoteIndicateur("taux_femmes_cadres"))
        + Points(NoteIndicateur("taux_handicap"))
        + Points(NoteIndicateur("ecart_salaire"))
        + Points(NoteIndicateur("equilibre_age"))
        + Points(NoteIndicateur("taux_absenteisme"))

\* C7: whenever score_global is computed, in the "Evaluer" block or in the
\* report block, it is the sum of the five-point values of the grades of
\* the six fixed indicators, each counted once, divided by 6.
C7_MoyenneSimple ==
    /\ evaluation.fait => MoyenneDesSix(evaluation)
    /\ rapport.fait => MoyenneDesSix(rapport)

\* both blocks have computed a score from grades that repeat
C7_Temoin ==
    /\ evaluation.fait
    /\ rapport.fait
    /\ evaluation.resultats["Taux de feminisation global"] = "A"
    /\ evaluation.resultats["Taux de femmes cadres"] = "A"
    /\ evaluation.resultats["Taux d'absenteisme"] = "E"
    /\ evaluation.score_global.num = 20

\* C8: note_vers_chiffre maps A to 5, B to 4, C to 3, D to 2 and E to 1.
C8_TableDeConversion ==
    Retourne("note_vers_chiffre") =>
        /\ (appel.note = "A") => retour = <<5>>
        /\ (appel.note = "B") => retour = <<4>>
        /\ (appel.note = "C") => retour = <<3>>
        /\ (appel.note = "D") => retour = <<2>>
        /\ (appel.note = "E") => retour = <<1>>

C8_Temoin ==
    /\ Retourne("note_vers_chiffre")
    /\ appel.note = "D"
    /\ retour = <<2>>

\* score >= k / 10 for the fraction score = num / den
AuMoins(score, dixiemes) == 10 * score.num >= dixiemes * score.den

\* C9: chiffre_vers_note gives A when score >= 4.5, otherwise B when
\* score >= 3.5, otherwise C when score >= 2.5, otherwise D when
\* score >= 1.5, otherwise E.
C9_EchelleGlobale ==
    Retourne("chiffre_vers_note") =>
        LET s == appel.score
            r == retour[1]
        IN  /\ AuMoins(s, 45) => r = "A"
            /\ (~AuMoins(s, 45) /\ AuMoins(s, 35)) => r = "B"
            /\ (~AuMoins(s, 35) /\ AuMoins(s, 25)) => r = "C"
            /\ (~AuMoins(s, 25) /\ AuMoins(s, 15)) => r = "D"
            /\ ~AuMoins(s, 15) => r = "E"

\* the score 3.5 exactly, the lowest B
C9_Temoin ==
    /\ Retourne("chiffre_vers_note")
    /\ appel.score = [num |-> 21, den |-> 6]
    /\ retour = <<"B">>

\* how many of the six indicators got the grade n
NbNotes(e, n) == Cardinality({c \in DOMAIN e.resultats : e.resultats[c] = n})

\* C10: six grades A aggregate to the score 5.0 and the grade A, six
\* grades E to 1.0 and E, and the grades A, B, C, D, E, C to 3.0 and C.
C10_Exemples ==
    evaluation.fait =>
        /\ NbNotes(evaluation, "A") = 6 =>
            /\ evaluation.score_global.num = 5 * evaluation.score_global.den
            /\ evaluation.note_globale = "A"
        /\ NbNotes(evaluation, "E") = 6 =>
            /\ evaluation.score_global.num = 1 * evaluation.score_global.den
            /\ evaluation.note_globale = "E"
        /\ (/\ NbNotes(evaluation, "A") = 1
            /\ NbNotes(evaluation, "B") = 1
            /\ NbNotes(evaluation, "C") = 2
            /\ NbNotes(evaluation, "D") = 1
            /\ NbNotes(evaluation, "E") = 1) =>
            /\ evaluation.score_global.num = 3 * evaluation.score_global.den
            /\ evaluation.note_globale = "C"

\* the grades A, B, C, D, E, C in the order of the dict
C10_Temoin ==
    /\ evaluation.fait
    /\ evaluation.resultats["Taux de feminisation global"] = "A"
    /\ evaluation.resultats["Taux de femmes cadres"] = "B"
    /\ evaluation.resultats["Taux d'emploi handicap"] = "C"
    /\ evaluation.resultats["Ecart de salaire H/F"] = "D"
    /\ evaluation.resultats["Equilibre des ages"] = "E"
    /\ evaluation.resultats["Taux d'absenteisme"] = "C"
    /\ evaluation.note_globale = "C"

\* the fraction s lies in [1, 5]
EntreUnEtCinq(s) == s.den > 0 /\ s.num >= 1 * s.den /\ s.num <= 5 * s.den

\* C11: for every combination of the six indicator values, the score an
\* evaluation produces lies in the closed interval [1.0, 5.0].
C11_ScoreBorne ==
    /\ evaluation.fait => EntreUnEtCinq(evaluation.score_global)
    /\ rapport.fait => EntreUnEtCinq(rapport.score_global)

\* the lower end is reached: all six indicators graded E
C11_Temoin ==
    /\ evaluation.fait
    /\ rapport.fait
    /\ NbNotes(evaluation, "E") = 6
    /\ evaluation.score_global = [num |-> 6, den |-> 6]

\* what the run shows as an error of the data or of their evaluation: st.error,
\* or the uncaught exception (the errors of a PDF generation that failed on
\* the machine are not among them)
Erreurs ==
    {"error lecture du fichier", "error colonnes",
     "error validation des donnees", "error verifier que les donnees sont saisies",
     "exception KeyError"}

RunFini == pc \in {"fin", "arret"}

IndicateurManquant == ~(Cles \subseteq DOMAIN indicateurs)

\* C12 as stated: a run in which one of the six indicator values is missing
\* produces no aggregate score or grade and ends with an error shown.
C12_Original ==
    (RunFini /\ IndicateurManquant) =>
        /\ ~evaluation.fait
        /\ ~rapport.fait
        /\ messages \cap Erreurs # {}

\* C12, amended: while one of the six indicator values is missing no
\* aggregate score or grade is produced; when indicateurs is partly filled
\* the error of the upload is shown, and the run ends with an error shown,
\* except when no file was chosen: it then ends with the warning that asks
\* for the data.
C12_PasDAgregatPartiel ==
    IndicateurManquant =>
        /\ ~evaluation.fait
        /\ ~rapport.fait
        /\ (DOMAIN indicateurs # {}) => "error lecture du fichier" \in messages
        /\ RunFini =>
            \/ messages \cap Erreurs # {}
            \/ /\ fichier.type = "aucun"
               /\ "warning saisir les donnees" \in messages

\* an upload that failed after four indicators, then "Evaluer" pressed
C12_Temoin ==
    /\ pc = "arret"
    /\ DOMAIN indicateurs =
         {"taux_feminisation", "taux_femmes_cadres", "ecart_salaire", "taux_handicap"}
    /\ "exception KeyError" \in messages
    /\ ~evaluation.fait

\* every cell the script converts does convert
CellulesLisibles(data_dict) ==
    \A cle \in cles_converties \cap DOMAIN data_dict :
        ~Ne_convertit_pas(cle, data_dict[cle])

LigneInconnueLue ==
    /\ pc # "entree"
    /\ fichier.type = "table"
    /\ cle_inconnue \in DOMAIN fichier.data_dict

\* C13 as stated: an uploaded value whose key is not one of the fixed keys
\* is rejected, an error is shown and the request fails.
C13_Original ==
    LigneInconnueLue =>
        /\ messages \cap Erreurs # {}
        /\ ~evaluation.fait
        /\ ~rapport.fait

\* C13, amended: an uploaded row whose key is not one the script looks up
\* is ignored; when the other cells convert, the import is reported as
\* successful with no error, the six indicators are filled and the report
\* block computes the aggregate.
C13_CleInconnueIgnoree ==
    (LigneInconnueLue /\ CellulesLisibles(fichier.data_dict)) =>
        /\ "success import" \in messages
        /\ messages \cap Erreurs = {}
        /\ DOMAIN indicateurs = Cles
        /\ (pc = "fin") => rapport.fait

\* an unknown row beside the nine cells of the template, graded to the end
C13_Temoin ==
    /\ LigneInconnueLue
    /\ DOMAIN fichier.data_dict = DOMAIN modele \cup {cle_inconnue}
    /\ CellulesLisibles(fichier.data_dict)
    /\ pc = "fin"
    /\ evaluation.fait
    /\ rapport.fait

\* |x - 33.33| in hundredths
Distance(x) == IF x >= 3333 THEN x - 3333 ELSE 3333 - x

\* the sum of the three deviations of the call
SommeEcarts ==
    Distance(appel.moins_30) + Distance(appel.entre_30_50) + Distance(appel.plus_50)

\* calculer_equilibre_age has returned and none of its arguments was NaN
RetourneEquilibre ==
    /\ Retourne("calculer_equilibre_age")
    /\ nan \notin {appel.moins_30, appel.entre_30_50, appel.plus_50}

\* the call was made with the brackets (a, b, c)
EquilibreDe(a, b, c) ==
    /\ Retourne("calculer_equilibre_age")
    /\ appel.moins_30 = a
    /\ appel.entre_30_50 = b
    /\ appel.plus_50 = c

\* the float x is within one hundredth of v hundredths
AUnCentiemePres(x, v) ==
    /\ Millioniemes(x) >= 10000 * (v - 1)
    /\ Millioniemes(x) < 10000 * (v + 1)

\* (1 - m / 66.67) * 100 in real numbers, with m = S / 3 and S the sum of the
\* deviations in hundredths: 100 * (20001 - S) / 20001, given in millionths
\* rounded down
equilibre_age_exact(S) ==
    LET n == Fois(Fois(Naturel(Abs(20001 - S)), 10000), 10000)
        d == DiviserPar(n, 20001, Len(n), 0)
    IN  IF S <= 20001 THEN Valeur(Rogner(d.q))
        ELSE 0 - Valeur(Rogner(d.q)) - (IF d.r # 0 THEN 1 ELSE 0)

\* C15: for three numbers a, b and c the returned value is a number, the
\* value (1 - m / 66.67) * 100 with m the mean of
\* |a - 33.33|, |b - 33.33| and |c - 33.33|, whether or not a + b + c = 100:
\* the float returned and the real number of the formula agree to within a
\* millionth.
C15_Formule ==
    RetourneEquilibre =>
        /\ retour[1] # FNaN
        /\ Abs(Millioniemes(retour[1]) - equilibre_age_exact(SommeEcarts)) <= 1

\* three brackets of 50 %: the sum is 150 and the value 74.996250...
C15_Temoin ==
    /\ EquilibreDe(5000, 5000, 5000)
    /\ appel.moins_30 + appel.entre_30_50 + appel.plus_50 # 10000
    /\ SommeEcarts = 5001
    /\ Millioniemes(retour[1]) = 74996250

\* C16: the value is not clamped: when the mean deviation exceeds 66.67
\* the returned value is negative, and so is the value indicateurs holds;
\* when the mean deviation is below 66.67 the value is positive.  The call
\* returns a value for every input of the grid.
C16_PasDeBorne ==
    RetourneEquilibre =>
        /\ Len(retour) = 1
        /\ retour[1] # FNaN
        /\ (SommeEcarts > 3 * 6667) =>
              FNegatif(retour[1]) /\ Centiemes(retour[1]) < 0
        /\ (SommeEcarts < 3 * 6667) =>
              ~FNegatif(retour[1]) /\ retour[1] # Zero

\* three brackets of 200 %: the mean deviation is 166.67 and the value -149.9925...
C16_Temoin ==
    /\ EquilibreDe(20000, 20000, 20000)
    /\ FNegatif(retour[1])
    /\ Centiemes(retour[1]) = 0 - 15000

\* C17 (the docstring): the returned score lies between 0 and 1, and 1 is
\* the score of the balanced distribution.
C17_EntreZeroEtUn ==
    Retourne("calculer_equilibre_age") =>
        /\ ~FNegatif(retour[1])
        /\ ~FSup(retour[1], DeEntier(1))

\* C18: for (100, 0, 0) the deviations are 66.67, 33.33 and 33.33 (to within
\* a millionth) and the returned value is 33.33 to within 0.01.
C18_ToutDansUneTranche ==
    EquilibreDe(10000, 0, 0) =>
        /\ Abs(Millioniemes(FAbs(FMoins(Flottant(appel.moins_30), distribution_ideale)))
               - 66670000) <= 1
        /\ Abs(Millioniemes(FAbs(FMoins(Flottant(appel.entre_30_50), distribution_ideale)))
               - 33330000) <= 1
        /\ Abs(Millioniemes(FAbs(FMoins(Flottant(appel.plus_50), distribution_ideale)))
               - 33330000) <= 1
        /\ AUnCentiemePres(retour[1], 3333)

\* the value is 33.338...
C18_Temoin ==
    /\ EquilibreDe(10000, 0, 0)
    /\ SommeEcarts = 6667 + 3333 + 3333
    /\ Centiemes(retour[1]) = 3333

\* C19: for (33.33, 33.33, 33.34) the returned value is 100 to within 0.01.
C19_Equilibre ==
    EquilibreDe(3333, 3333, 3334) => AUnCentiemePres(retour[1], 10000)

\* the value is 99.995...
C19_Temoin ==
    /\ EquilibreDe(3333, 3333, 3334)
    /\ SommeEcarts = 1
    /\ Centiemes(retour[1]) = 9999

\* the ladder t gets strictly harder to reach from D to A in the direction
\* it is graded with
EchelleDansLeSens(t, ordre_croissant) ==
    IF ordre_croissant
    THEN t[1] > t[2] /\ t[2] > t[3] /\ t[3] > t[4]
    ELSE t[1] < t[2] /\ t[2] < t[3] /\ t[3] < t[4]

\* C20: at both call sites each of the six ladders is strictly monotonic in
\* the direction it is graded with: strictly decreasing for the four
\* indicators graded higher-is-better (taux_feminisation,
\* taux_femmes_cadres, taux_handicap, equilibre_age), strictly increasing
\* for the two graded lower-is-better (ecart_salaire, taux_absenteisme).
C20_EchellesMonotones ==
    (evaluation.fait \/ rapport.fait) =>
        /\ \A cle \in Cles : EchelleDansLeSens(seuils[cle], ordre_croissant_site[cle])
        /\ \A cle \in Cles : EchelleDansLeSens(seuils[cle], ordre_croissant_rapport[cle])
        /\ ordre_croissant_rapport = ordre_croissant_site
        /\ {cle \in Cles : ordre_croissant_site[cle]} =
             {"taux_feminisation", "taux_femmes_cadres", "taux_handicap", "equilibre_age"}

\* both blocks have graded: a rate of 0 is an E where more is better and an
\* A where less is better
C20_Temoin ==
    /\ evaluation.fait
    /\ rapport.fait
    /\ indicateurs["taux_handicap"] = 0
    /\ rapport.resultats["Taux d'emploi handicap"] = "E"
    /\ indicateurs["ecart_salaire"] = 0
    /\ rapport.resultats["Ecart de salaire H/F"] = "A"
    /\ indicateurs["taux_absenteisme"] = 0
    /\ evaluation.resultats["Taux d'absenteisme"] = "A"

\* the fraction s is a whole number
Entier(s) == s.num % s.den = 0

\* C21: the conversions are not inverses on scores: for a score x in [1, 5],
\* note_vers_chiffre(chiffre_vers_note(x)) equals x when x is a whole
\* number and differs from x otherwise (4.5 gives 5, 10/3 gives 3).
C21_PasInverses ==
    (/\ Retourne("chiffre_vers_note")
     /\ appel.score.num >= appel.score.den
     /\ appel.score.num <= 5 * appel.score.den) =>
        (note_vers_chiffre(retour[1]) * appel.score.den = appel.score.num)
            <=> Entier(appel.score)

\* the score 4.5 comes back as 5
C21_Temoin ==
    /\ Retourne("chiffre_vers_note")
    /\ appel.score = [num |-> 9, den |-> 2]
    /\ retour = <<"A">>
    /\ note_vers_chiffre(retour[1]) * 2 # 9

\* C27: chiffre_vers_note(note_vers_chiffre(g)) = g for every grade g.
C27_AllerRetour ==
    (Retourne("note_vers_chiffre") /\ appel.note \in Notes) =>
        chiffre_vers_note([num |-> retour[1], den |-> 1]) = appel.note

C27_Temoin ==
    /\ Retourne("note_vers_chiffre")
    /\ appel.note = "B"
    /\ retour = <<4>>
    /\ chiffre_vers_note([num |-> 4, den |-> 1]) = "B"

\* C28: with t0 < t1 < t2 < t3 and lower-is-better, a value w >= v is
\* graded no better than v.
C28_MonotoneDecroissant ==
    (/\ Retourne("attribuer_note")
     /\ ~appel.ordre_croissant
     /\ appel.valeur # nan
     /\ \A i \in 1..3 : appel.seuils[i] < appel.seuils[i + 1]) =>
        \A w \in ValeursGrille(appel.seuils) :
            w >= appel.valeur =>
                Rang(attribuer_note(w, appel.seuils, FALSE)) <= Rang(retour[1])

\* a value graded B above which a value is graded E
C28_Temoin ==
    /\ Retourne("attribuer_note")
    /\ ~appel.ordre_croissant
    /\ appel.seuils = seuils["taux_absenteisme"]
    /\ retour = <<"B">>
    /\ \E w \in ValeursGrille(appel.seuils) :
        w > appel.valeur /\ attribuer_note(w, appel.seuils, FALSE) = "E"

\* C23: for the same six values, the "Evaluer" block and the report block
\* compute the same six grades, the same aggregate score and the same
\* aggregate grade.
C23_BlocsIdentiques ==
    (evaluation.fait /\ rapport.fait) =>
        /\ rapport.resultats = evaluation.resultats
        /\ rapport.notes_numeriques = evaluation.notes_numeriques
        /\ rapport.score_global = evaluation.score_global
        /\ rapport.note_globale = evaluation.note_globale

\* both blocks graded a pay gap and an absenteeism rate of 0 as A, and a
\* disability rate of 0 as E
C23_Temoin ==
    /\ pc = "fin"
    /\ evaluation.fait
    /\ rapport.fait
    /\ indicateurs["ecart_salaire"] = 0
    /\ indicateurs["taux_absenteisme"] = 0
    /\ indicateurs["taux_handicap"] = 0
    /\ evaluation.resultats["Ecart de salaire H/F"] = "A"
    /\ rapport.resultats["Taux d'absenteisme"] = "A"
    /\ rapport.resultats["Taux d'emploi handicap"] = "E"
    /\ rapport.note_globale = evaluation.note_globale

\* the percentage the upload block uses for the key: 0 when the key is
\* absent, NaN when its cell is empty
PartLue(cle) ==
    IF cle \notin DOMAIN fichier.data_dict THEN 0
    ELSE IF fichier.data_dict[cle].nan THEN nan
    ELSE fichier.data_dict[cle].v

\* the age balance indicateurs holds for the brackets a table of the model
\* may give: those of the template, 0 for an absent row, or NaN for an empty
\* cell
equilibre_age_lu ==
    [a \in {0, nan, modele.moins_30_ans}, b \in {0, nan, modele.entre_30_50_ans},
     c \in {0, nan, modele.plus_50_ans} |-> Centiemes(calculer_equilibre_age(a, b, c))]

\* C24: in the upload path a key absent from the table is not rejected: the
\* import is reported as successful with no error, the value of the absent
\* key is 0 (an absent age bracket counts as 0 %), indicateurs has all six
\* keys and the report block grades all six.
C24_CleAbsenteZero ==
    (/\ pc # "entree"
     /\ fichier.type = "table"
     /\ CellulesLisibles(fichier.data_dict)) =>
        /\ "success import" \in messages
        /\ messages \cap Erreurs = {}
        /\ DOMAIN indicateurs = Cles
        /\ \A cle \in Cles \ {"equilibre_age"} :
              cle \notin DOMAIN fichier.data_dict => indicateurs[cle] = 0
        /\ indicateurs["equilibre_age"] =
              equilibre_age_lu[PartLue("moins_30_ans"), PartLue("entre_30_50_ans"),
                               PartLue("plus_50_ans")]
        /\ pc = "fin" =>
              /\ rapport.fait
              /\ Cardinality(DOMAIN rapport.resultats) = 6

\* a table with no row at all: five values are 0, the age balance is that of
\* (0, 0, 0), the import succeeded and both blocks graded
C24_Temoin ==
    /\ pc = "fin"
    /\ fichier.type = "table"
    /\ DOMAIN fichier.data_dict = {}
    /\ "success import" \in messages
    /\ indicateurs["taux_feminisation"] = 0
    /\ indicateurs["taux_absenteisme"] = 0
    /\ indicateurs["equilibre_age"] = 5000
    /\ evaluation.fait
    /\ rapport.fait
    /\ rapport.resultats["Taux de feminisation global"] = "E"
    /\ rapport.resultats["Taux d'absenteisme"] = "A"

\* the ranks of the six individual grades of the evaluation e
RangsDe(e) == {Rang(e.resultats[c]) : c \in DOMAIN e.resultats}

\* C25: the aggregate grade is no better than the best of the six
\* individual grades and no worse than the worst; six identical grades g
\* aggregate to g.
C25_EntreMeilleureEtPire ==
    evaluation.fait =>
        /\ \E r \in RangsDe(evaluation) : r <= Rang(evaluation.note_globale)
        /\ \E r \in RangsDe(evaluation) : r >= Rang(evaluation.note_globale)
        /\ \A g \in Notes :
              (\A c \in DOMAIN evaluation.resultats : evaluation.resultats[c] = g)
                  => evaluation.note_globale = g

\* five A and one E aggregate to B, strictly between the best and the worst
C25_Temoin ==
    /\ evaluation.fait
    /\ NbNotes(evaluation, "A") = 5
    /\ NbNotes(evaluation, "E") = 1
    /\ evaluation.note_globale = "B"

\* six D aggregate to D
C25_TemoinIdentiques ==
    /\ evaluation.fait
    /\ NbNotes(evaluation, "D") = 6
    /\ evaluation.note_globale = "D"

\* the call is calculer_equilibre_age on three non-negative parts summing to 100
DistributionValide ==
    /\ RetourneEquilibre
    /\ appel.moins_30 >= 0
    /\ appel.entre_30_50 >= 0
    /\ appel.plus_50 >= 0
    /\ appel.moins_30 + appel.entre_30_50 + appel.plus_50 = 10000

\* C26: for three non-negative parts summing to 100, the sum of the
\* deviations from 33.33 is at most that of (100, 0, 0), that is
\* 66.67 + 33.33 + 33.33, so the value returned is at least the one of
\* (100, 0, 0), which is above 33.33, and at most 100; 0 is not reached.
C26_AuMoinsUnTiers ==
    DistributionValide =>
        /\ SommeEcarts <= 6667 + 3333 + 3333
        /\ ~FSup(Flottant(3333), retour[1])
        /\ ~FSup(retour[1], DeEntier(100))
        /\ retour[1] # Zero
        /\ ~FNegatif(retour[1])

\* the extreme distribution (100, 0, 0) gives 33.338...
C26_Temoin ==
    /\ DistributionValide
    /\ appel.moins_30 = 10000
    /\ SommeEcarts = 13333
    /\ Millioniemes(retour[1]) = 33338333

\* C29: get_analyse_indicateur returns the "data not available" message
\* exactly when the value is 0, whatever the grade and the indicator; for a
\* non-zero value of one of the six indicators with a grade in A..E it
\* returns the analysis text of that indicator and grade.
C29_AnalyseSelonValeur ==
    Retourne("get_analyse_indicateur") =>
        /\ (retour[1].texte = NonDisponibles) <=> (appel.valeur = 0)
        /\ (/\ appel.valeur # 0
            /\ appel.indicateur \in DOMAIN calculer_resultats_rapport(
                                             [cle \in Cles |-> 0])
            /\ appel.note \in Notes) =>
               /\ retour[1].texte = "analyse"
               /\ retour[1].indicateur = appel.indicateur
               /\ retour[1].note = appel.note
               /\ retour[1].valeur = appel.valeur

\* a pay gap of 0, which is graded A, gets the "data not available" message
C29_Temoin ==
    /\ Retourne("get_analyse_indicateur")
    /\ appel.indicateur = "Ecart de salaire H/F"
    /\ appel.valeur = 0
    /\ appel.note = attribuer_note(0, seuils["ecart_salaire"], FALSE)
    /\ appel.note = "A"
    /\ retour[1].texte = NonDisponibles

\* a pay gap of 2.5 % graded B gets the text of the pay gap for B
C29_TemoinAnalyse ==
    /\ Retourne("get_analyse_indicateur")
    /\ appel.indicateur = "Ecart de salaire H/F"
    /\ appel.valeur = 250
    /\ appel.note = "B"
    /\ retour[1] = [texte |-> "analyse", indicateur |-> "Ecart de salaire H/F",
                    note |-> "B", valeur |-> 250]

\* convert_data has returned an output table
TableConvertie == Retourne("convert_data") /\ retour[1].type = "DataFrame"

\* the dict the evaluator builds from the table convert_data returned
DictImporte == dict_zip(retour[1].Indicateur, retour[1].Valeur)

\* C22: the table a successful convert_data returns has the columns
\* 'Indicateur' and 'Valeur' the evaluator requires, and the dict the
\* evaluator builds from it has exactly the ten keys the upload block looks
\* up, each row keeping its own value, so that no lookup falls back to its
\* default.
C22_FormatRequis ==
    TableConvertie =>
        /\ expected_columns \subseteq colonnes(retour[1])
        /\ Len(retour[1].Indicateur) = Len(retour[1].Valeur)
        /\ Cardinality(DOMAIN DictImporte) = Len(retour[1].Indicateur)
        /\ \A cle \in cles_lues : cle \in DOMAIN DictImporte
        /\ DOMAIN DictImporte = cles_lues
        /\ DictImporte["annee"] = appel.df.annee.v
        /\ DictImporte["taux_handicap"] =
              Pourcentage(appel.df.nb_handicap, appel.df.effectif_total)
        /\ DictImporte["plus_50_ans"] =
              Pourcentage(appel.df.plus_50, appel.df.effectif_total)
        /\ DictImporte["taux_absenteisme"] =
              Pourcentage(appel.df.jours_absence, appel.df.jours_travailles)

\* a workbook of 10 people, 4 women, 4 under 30 and 6 between 30 and 50, is
\* converted
C22_Temoin ==
    /\ TableConvertie
    /\ appel.df.nb_femmes.v = 4
    /\ appel.df.moins_30.v = 4
    /\ appel.df.entre_30_50.v = 6
    /\ appel.df.plus_50.v = 0
    /\ messages = {}
    /\ DictImporte["taux_feminisation"] = DeEntier(40)
    /\ DictImporte["moins_30_ans"] = DeEntier(40)
    /\ DictImporte["entre_30_50_ans"] = DeEntier(60)

\* the float p is a percentage between 0 and 100 (NaN is not)
EntreZeroEtCent(p) == p # FNaN /\ ~FNegatif(p) /\ ~FSup(p, DeEntier(100))

\* C30 as stated: when convert_data returns a table, the six percentages
\* derived from headcounts lie in [0, 100]; when a validation fails it
\* returns None, with the error shown, and raises nothing.
C30_PourcentagesBornes ==
    Retourne("convert_data") =>
        /\ retour[1].type = "DataFrame" =>
              \A cle \in {"taux_feminisation", "taux_femmes_cadres", "taux_handicap",
                          "moins_30_ans", "entre_30_50_ans", "plus_50_ans"} :
                  EntreZeroEtCent(DictImporte[cle])
        /\ erreur_convert_data(appel.df, appel.maintenant) # "aucune" =>
              /\ retour[1] = None
              /\ messages # {}

====
